---- MODULE Spec2Model ----
(***************************************************************************)
(* The bulk student importer of campus-id-pro (ExcelImport.tsx), the       *)
(* single-student form (StudentForm) and the students table they write to. *)
(*                                                                         *)
(* Text is a sequence of one-character strings, so that trimming is        *)
(* computed and an untrimmed value differs from its trimmed form.          *)
(***************************************************************************)
EXTENDS Bags, FiniteSets, Integers, Sequences, TLC

\* ------------------------------------------------------------------ bounds
\* Longest sheet (data rows) a file of the importer specification carries.
MaxRows == 3
\* Store faults (a failed lookup, insert, log write or user fetch) per behaviour.
MaxFaults == 1
\* Longest sheet of an importer that runs beside another one.
MaxRaceRows == 1
\* Log entries an importer session of several selections and runs may write.
MaxLogs == 1
\* Runs of the importer in a session that exports and imports again.
MaxRoundTripRuns == 2

\* ------------------------------------------------------------------- text
RECURSIVE TrimStart(_)
TrimStart(s) ==
  IF s = <<>> THEN <<>>
  ELSE IF Head(s) = " " THEN TrimStart(Tail(s)) ELSE s

RECURSIVE TrimEnd(_)
TrimEnd(s) ==
  IF s = <<>> THEN <<>>
  ELSE IF s[Len(s)] = " " THEN TrimEnd(SubSeq(s, 1, Len(s) - 1)) ELSE s

\* String.prototype.trim
trim(s) == TrimEnd(TrimStart(s))

\* ------------------------------------------------------------ sheet cells
\* A cell of a parsed row: the key is absent (undefined) or holds a string.
Undef == [t |-> "undefined", v |-> <<>>]
Str(s) == [t |-> "string", v |-> s]

\* JavaScript truthiness of row[col]: undefined and "" are falsy.
Truthy(c) == c.t = "string" /\ c.v # <<>>

requiredColumns == {"Student Name", "SRN No", "Class", "Section", "Date of Birth"}

MkRow(name, srn, class, section, dob) ==
  [c \in requiredColumns |->
     CASE c = "Student Name" -> name
       [] c = "SRN No" -> srn
       [] c = "Class" -> class
       [] c = "Section" -> section
       [] OTHER -> dob]

GoodDate == <<"2005-05-15">>
BadDate == <<"n", "/", "a">>

\* new Date(text): the texts the date parser accepts.
ParseableDates == {GoodDate}

\* The sheet rows files are made of.
RowA == MkRow(Str(<<"N">>), Str(<<"A">>), Str(<<"1">>), Str(<<"X">>), Str(GoodDate))
RowBsp == MkRow(Str(<<"N">>), Str(<<" ", "B">>), Str(<<"1">>), Str(<<"X">>), Str(GoodDate))
RowNoName == MkRow(Undef, Str(<<"A">>), Str(<<"1">>), Str(<<"X">>), Str(BadDate))
RowEmptyName == MkRow(Str(<<>>), Str(<<"C">>), Str(<<"1">>), Str(<<"X">>), Str(GoodDate))
RowBadDate == MkRow(Str(<<"N">>), Str(<<"A">>), Str(<<"1">>), Str(<<"X">>), Str(BadDate))
RowBlank == MkRow(Undef, Undef, Undef, Undef, Undef)
\* A row whose name cell holds one blank.
RowSpName == MkRow(Str(<<" ">>), Str(<<"C">>), Str(<<"1">>), Str(<<"X">>), Str(GoodDate))

SheetRows == {RowA, RowBsp, RowNoName, RowEmptyName, RowBadDate, RowBlank}

\* --------------------------------------------------------- spreadsheet file
\* A selected file: readable or not, the header row of its first sheet and the
\* sheet's data rows (a cell under a column the header lacks belongs to no key).
NoFile == [name |-> "", readable |-> FALSE, header |-> {}, rows |-> <<>>]

SeqsUpTo(S, n) == UNION {[1..k -> S] : k \in 0..n}

FileNames == {"a.xlsx"}

\* Readable files with the given headers and up to n rows of rowSet.
SheetFiles(headers, rowSet, n) ==
  [name : FileNames, readable : {TRUE}, header : headers, rows : SeqsUpTo(rowSet, n)]

\* A file XLSX.read cannot parse.
UnreadableFiles ==
  [name : FileNames, readable : {FALSE}, header : {{}}, rows : {<<>>}]

\* One parsed row: a key for every non-empty cell under a header column.
JsonRow(header, sheetRow) ==
  [c \in requiredColumns |-> IF c \in header THEN sheetRow[c] ELSE Undef]

IsBlankRow(r) == \A c \in requiredColumns : r[c] = Undef

RECURSIVE DropBlank(_)
DropBlank(rs) ==
  IF rs = <<>> THEN <<>>
  ELSE IF IsBlankRow(Head(rs)) THEN DropBlank(Tail(rs))
       ELSE <<Head(rs)>> \o DropBlank(Tail(rs))

\* XLSX.utils.sheet_to_json: header row gives the keys, blank rows are skipped.
sheet_to_json(file) ==
  DropBlank([k \in 1..Len(file.rows) |-> JsonRow(file.header, file.rows[k])])

\* Mutant of missingColumns: the column check finds nothing missing.
missingColumnsNone(firstRow) == {}

\* requiredColumns.filter(col => !(col in firstRow))
missingColumns(firstRow) == {c \in requiredColumns : firstRow[c] = Undef}

\* --------------------------------------------------------------- the store
Schools == {"s1", "s2"}
NoUser == "null"
Users == {"u1"}

NoError == "ok"
UniqueViolation == "duplicate key value violates unique constraint"
StoreError == "store error"

Student(school, name, srn, class, section, dob) ==
  [school_id |-> school, student_name |-> name, srn_no |-> srn,
   class |-> class, section |-> section, date_of_birth |-> dob]

\* Mutant of students_school_id_srn_no_key: the table has no unique key.
noUniqueKey(tbl, rec) == FALSE

\* UNIQUE(school_id, srn_no) of table students: would rec break it?
students_school_id_srn_no_key(tbl, rec) ==
  \E r \in BagToSet(tbl) : r.school_id = rec.school_id /\ r.srn_no = rec.srn_no

\* Mutant of studentsInsert: a conflicting insert is dropped without an error.
studentsInsertSilent(tbl, rec, fault) ==
  IF fault THEN [error |-> StoreError, table |-> tbl]
  ELSE IF \E r \in BagToSet(tbl) :
            r.school_id = rec.school_id /\ r.srn_no = rec.srn_no
       THEN [error |-> NoError, table |-> tbl]
       ELSE [error |-> NoError, table |-> tbl (+) SetToBag({rec})]

\* supabase.from("students").insert(rec): the error returned and the table after.
studentsInsert(tbl, rec, fault) ==
  IF fault THEN [error |-> StoreError, table |-> tbl]
  ELSE IF students_school_id_srn_no_key(tbl, rec)
       THEN [error |-> UniqueViolation, table |-> tbl]
       ELSE [error |-> NoError, table |-> tbl (+) SetToBag({rec})]

\* .select("id").eq("srn_no", srnNo).eq("school_id", schoolId): rows matched.
studentsMatching(tbl, srnNo, schoolId) ==
  LET hit == {r \in BagToSet(tbl) : r.srn_no = srnNo /\ r.school_id = schoolId}
  IN  IF hit = {} THEN 0 ELSE BagCardinality([r \in hit |-> tbl[r]])

\* Mutant of validateSRN: every SRN is reported unique unless the store fails.
validateSRNBlind(tbl, srnNo, schoolId, fault) == ~fault

\* Mutant of validateSRN: a lookup that fails reports the SRN as unique.
validateSRNTrusting(tbl, srnNo, schoolId, fault) ==
  IF fault \/ studentsMatching(tbl, srnNo, schoolId) > 1 THEN TRUE
  ELSE studentsMatching(tbl, srnNo, schoolId) = 0

\* Mutant of validateSRN: the lookup leaves out the school filter.
validateSRNAnySchool(tbl, srnNo, schoolId, fault) ==
  LET hits == {r \in BagToSet(tbl) : r.srn_no = srnNo} IN
  IF fault \/ Cardinality(hits) > 1 THEN FALSE ELSE hits = {}

\* ExcelImport.validateSRN: false on a store error (maybeSingle fails on a
\* fault or on several matches), else true iff no student matched.
validateSRN(tbl, srnNo, schoolId, fault) ==
  IF fault \/ studentsMatching(tbl, srnNo, schoolId) > 1 THEN FALSE
  ELSE studentsMatching(tbl, srnNo, schoolId) = 0

\* supabase.from('students').update(rec).eq('id', old.id): the row old becomes
\* rec unless another row holds rec's key; no row matches if old is gone.
studentsUpdate(tbl, old, rec, fault) ==
  IF fault THEN [error |-> StoreError, table |-> tbl]
  ELSE IF ~BagIn(old, tbl) THEN [error |-> NoError, table |-> tbl]
  ELSE IF students_school_id_srn_no_key(tbl (-) SetToBag({old}), rec)
       THEN [error |-> UniqueViolation, table |-> tbl]
       ELSE [error |-> NoError, table |-> (tbl (-) SetToBag({old})) (+) SetToBag({rec})]

\* No student: the form creates one.
NoStudent == Student("", <<>>, <<>>, <<>>, <<>>, <<>>)

\* StudentForm.validateSRN: true without a lookup for an empty or unchanged
\* SRN and on a store error, else true iff no student matched.
formValidateSRN(tbl, srn, schoolId, student, fault) ==
  IF srn = <<>> \/ (student # NoStudent /\ srn = student.srn_no) THEN TRUE
  ELSE IF fault \/ studentsMatching(tbl, srn, schoolId) > 1 THEN TRUE
  ELSE studentsMatching(tbl, srn, schoolId) = 0

\* ------------------------------------------------------------------- state
Importers == {"i1", "i2"}

VARIABLES
  students,        \* table public.students, a bag of Student records
  import_logs,     \* table public.import_logs, a bag of log entries
  faults,          \* store faults that have happened
  selectedSchool,  \* per importer: useState selectedSchool ("" = none)
  importData,      \* per importer: useState importData, the parsed rows
  importing,       \* per importer: useState importing
  progress,        \* per importer: useState progress
  results,         \* per importer: useState results (NoResults = null)
  fileInput,       \* per importer: fileInputRef.current.files[0].name ("" = none)
  reader,          \* per importer: the file a FileReader is still reading
  picked,          \* per importer: the user has already picked a file
  toasts,          \* per importer: the toasts of the last handler that toasted
  pc,              \* per importer: position of importStudents
  run,             \* per importer: the locals of importStudents
  form,            \* the StudentForm: its props, formData and position
  user_profiles,   \* table public.user_profiles: each user's role and school
  location,        \* the router's path
  layout,          \* AdminLayout: loading, userRole and position of checkUserRole
  dashboard,       \* Dashboard: loading, userProfile and position of fetchUserProfile
  schoolDash,      \* SchoolDashboard: loading, students and position of fetchStudents
  adminDash,       \* AdminDashboard: students, filters.school and queries in flight
  download,        \* the workbook XLSX.writeFile wrote last (NoFile = none)
  states,          \* table public.states, a set of rows
  blocks,          \* table public.blocks, a set of rows
  statesPage,      \* StatesPage: its dialogs, formData and position of handleSubmit
  blocksPage,      \* BlocksPage: the same, its districts and its effect's last deps
  auth_users,      \* auth.users: the emails that have an account
  schools,         \* table public.schools, a set of rows
  userMgmt,        \* UserRoleManagement: position and formData of handleSubmit
  schoolsPage      \* SchoolsPage: position and formData of handleSubmit

\* The admin pages' tables and components.
accountVars == <<auth_users, schools, userMgmt, schoolsPage>>
pageVars == <<states, blocks, statesPage, blocksPage, accountVars>>

dashVars == <<user_profiles, location, layout, dashboard, schoolDash, adminDash,
              download, pageVars>>

importerVars == <<selectedSchool, importData, importing, progress, results,
                  fileInput, reader, picked, toasts, pc, run>>

vars == <<students, import_logs, faults, selectedSchool, importData, importing,
          progress, results, fileInput, reader, picked, toasts, pc, run, form,
          dashVars>>

\* A row of user_profiles as the dashboards read it. check_school_role: an
\* admin has no school, a school user has one.
NoProfile == [role |-> "null", school_id |-> ""]
AdminProfile == [role |-> "admin", school_id |-> ""]
SchoolProfile(s) == [role |-> "school", school_id |-> s]
Profiles == {AdminProfile} \cup {SchoolProfile(s) : s \in Schools}

\* The components before they are mounted.
NoLayout ==
  [pc |-> "unmounted", loading |-> TRUE, user |-> NoUser, userRole |-> "null"]
NoDashboard ==
  [pc |-> "unmounted", loading |-> TRUE, user |-> NoUser, userProfile |-> NoProfile]
NoSchoolDash == [pc |-> "unmounted", loading |-> TRUE, students |-> <<>>]
NoAdminDash == [mounted |-> FALSE, students |-> <<>>, school |-> "", pending |-> {}]

\* Rows of public.states, public.districts and public.blocks.
StateRow(id, name, code) == [id |-> id, name |-> name, code |-> code]
DistrictRow(id, state) == [id |-> id, state_id |-> state]
BlockRow(id, name, code, district) ==
  [id |-> id, name |-> name, code |-> code, district_id |-> district]

\* editingState and editingBlock when they are null.
NoState == StateRow("", "", "")
NoBlock == BlockRow("", "", "", "")

\* The hierarchy a session finds: one state, two districts in it and one
\* block. Districts are not edited here.
InitStates == {StateRow("st1", "Goa", "GA")}
districtsTable == {DistrictRow("d1", "st1"), DistrictRow("d2", "st1")}
InitBlocks == {BlockRow("b1", "North", "N", "d1")}

\* useState formData of StatesPage and of BlocksPage.
EmptyStateForm == [name |-> "", code |-> ""]
EmptyBlockForm == [name |-> "", code |-> "", state_id |-> "", district_id |-> ""]

\* StatesPage once fetchStates has answered; submitted holds what a
\* handleSubmit under way captured.
NoStatesPage ==
  [isAddDialogOpen |-> FALSE, editingState |-> NoState,
   formData |-> EmptyStateForm, pc |-> "idle",
   submitted |-> [editingState |-> NoState, formData |-> EmptyStateForm]]

\* BlocksPage once fetchBlocks has answered and its effect has run a first
\* time; fetchDistricts may answer later. deps are the effect's dependencies
\* (formData.state_id, districts) when it last ran.
NoBlocksPage ==
  [isAddDialogOpen |-> FALSE, editingBlock |-> NoBlock,
   formData |-> EmptyBlockForm, districts |-> {}, fetching |-> TRUE,
   filteredDistricts |-> {}, deps |-> <<"", {}>>, pc |-> "idle",
   submitted |-> [editingBlock |-> NoBlock, district_id |-> "",
                  name |-> "", code |-> ""]]

\* A row of public.schools.
SchoolRow(id, code, block) == [id |-> id, code |-> code, block_id |-> block]

\* The schools a session finds, both in block b1.
InitSchools == {SchoolRow(s, s, "b1") : s \in Schools}

\* The create form of UserRoleManagement (role 'school' is its default).
NoUserMgmt ==
  [pc |-> "idle",
   formData |-> [email |-> "", role |-> "school", school_id |-> ""]]

\* The create form of SchoolsPage with its login credentials.
NoSchoolsPage ==
  [pc |-> "idle", createLoginCredentials |-> FALSE, schoolId |-> "",
   formData |-> [code |-> "", block_id |-> "", login_email |-> ""]]

InitPages ==
  /\ states = InitStates
  /\ blocks = InitBlocks
  /\ statesPage = NoStatesPage
  /\ blocksPage = NoBlocksPage
  /\ auth_users = Users
  /\ schools = InitSchools
  /\ userMgmt = NoUserMgmt
  /\ schoolsPage = NoSchoolsPage

\* No dashboard is open: the importer and the form work on their own.
InitDashboards ==
  /\ user_profiles = [u \in Users |-> AdminProfile]
  /\ location = "/"
  /\ layout = NoLayout
  /\ dashboard = NoDashboard
  /\ schoolDash = NoSchoolDash
  /\ adminDash = NoAdminDash
  /\ download = NoFile
  /\ InitPages

\* StudentForm before any submit.
NoForm ==
  [pc |-> "idle", schoolId |-> "", student |-> NoStudent,
   formData |-> NoStudent]

NoResults == [total |-> -1, successful |-> 0, failed |-> 0, errors |-> <<>>]

\* The locals of a run: the closure's selectedSchool and importData, the
\* counters, the error list, the fetched user, the loop index and the parsed date.
NoRun ==
  [school |-> "", rows |-> <<>>, totalRecords |-> 0, successfulRecords |-> 0,
   failedRecords |-> 0, errors |-> <<>>, user |-> NoUser, i |-> 0,
   dateOfBirth |-> <<>>]

\* Whether the next store call may fail: the fault budget is not used up.
FaultChoices == IF faults < MaxFaults THEN {FALSE, TRUE} ELSE {FALSE}

\* The table an importer session finds when it opens: school s1 has no student
\* yet, school s2 has two, whose SRNs are A and B.
InitStores ==
  {SetToBag({Student("s2", <<"O">>, <<"A">>, <<"1">>, <<"X">>, GoodDate),
             Student("s2", <<"O">>, <<"B">>, <<"1">>, <<"X">>, GoodDate)})}

Init ==
  /\ students \in InitStores
  /\ import_logs = EmptyBag
  /\ faults = 0
  /\ selectedSchool = [p \in Importers |-> ""]
  /\ importData = [p \in Importers |-> <<>>]
  /\ importing = [p \in Importers |-> FALSE]
  /\ progress = [p \in Importers |-> 0]
  /\ results = [p \in Importers |-> NoResults]
  /\ fileInput = [p \in Importers |-> ""]
  /\ reader = [p \in Importers |-> NoFile]
  /\ picked = [p \in Importers |-> FALSE]
  /\ toasts = [p \in Importers |-> {}]
  /\ pc = [p \in Importers |-> "idle"]
  /\ run = [p \in Importers |-> NoRun]
  /\ form = NoForm
  /\ InitDashboards

\* ------------------------------------------------------ importer: the form
\* <Select onValueChange={setSelectedSchool}>
setSelectedSchool(p, s) ==
  /\ selectedSchool[p] # s
  /\ selectedSchool' = [selectedSchool EXCEPT ![p] = s]
  /\ UNCHANGED <<students, import_logs, faults, importData, importing, progress,
                 results, fileInput, reader, picked, toasts, pc, run, form, dashVars>>

\* handleFileSelect up to reader.readAsBinaryString(file); the Upload button
\* that opens the file dialog is disabled while importing.
handleFileSelect(p, file) ==
  /\ ~importing[p]
  /\ reader[p] = NoFile
  /\ fileInput' = [fileInput EXCEPT ![p] = file.name]
  /\ reader' = [reader EXCEPT ![p] = file]
  /\ picked' = [picked EXCEPT ![p] = TRUE]
  /\ UNCHANGED <<students, import_logs, faults, selectedSchool, importData,
                 importing, progress, results, toasts, pc, run, form, dashVars>>

\* A toast: its message and, for missing columns, the columns it lists.
Toast(msg, cols) == [msg |-> msg, cols |-> cols]

\* What reader.onload does with a file: the toast and the rows it loads
\* (load = FALSE: setImportData is not called).
onloadOutcome(file) ==
  LET jsonData == sheet_to_json(file) IN
  IF ~file.readable
  THEN [load |-> FALSE, toast |-> Toast("Error reading Excel file", {}), rows |-> <<>>]
  ELSE IF Len(jsonData) = 0
  THEN [load |-> FALSE, toast |-> Toast("Excel file is empty", {}), rows |-> <<>>]
  ELSE IF missingColumns(jsonData[1]) # {}
  THEN [load |-> FALSE, rows |-> <<>>,
        toast |-> Toast("Missing required columns", missingColumns(jsonData[1]))]
  ELSE [load |-> TRUE, toast |-> Toast("Loaded student records", {}), rows |-> jsonData]

\* reader.onload
readerOnload(p) ==
  /\ reader[p] # NoFile
  /\ LET out == onloadOutcome(reader[p]) IN
       /\ importData' = [importData EXCEPT ![p] = IF out.load THEN out.rows ELSE @]
       /\ toasts' = [toasts EXCEPT ![p] = {out.toast}]
  /\ reader' = [reader EXCEPT ![p] = NoFile]
  /\ UNCHANGED <<students, import_logs, faults, selectedSchool, importing,
                 progress, results, fileInput, picked, pc, run, form, dashVars>>

\* clearImport; the Clear button is disabled while importing.
clearImport(p) ==
  /\ ~importing[p]
  /\ importData' = [importData EXCEPT ![p] = <<>>]
  /\ results' = [results EXCEPT ![p] = NoResults]
  /\ progress' = [progress EXCEPT ![p] = 0]
  /\ fileInput' = [fileInput EXCEPT ![p] = ""]
  /\ UNCHANGED <<students, import_logs, faults, selectedSchool, importing,
                 reader, picked, toasts, pc, run, form, dashVars>>

\* ------------------------------------------------------- importer: the run
\* Mutant of RowError: the message carries the 0-based loop index.
RowErrorZeroBased(i, msg) == [row |-> i, msg |-> msg]

\* errors.push(`Row ${i + 1}: ${msg}`)
RowError(i, msg) == [row |-> i + 1, msg |-> msg]

\* Mutant of Failed: a failed row ends the loop (break instead of continue).
FailedAborts(r, msg) ==
  [r EXCEPT !.errors = Append(@, [row |-> r.i + 1, msg |-> msg]),
            !.failedRecords = @ + 1,
            !.i = r.totalRecords]

\* Mutant of Failed: the error is recorded but the row is not counted.
FailedUncounted(r, msg) ==
  [r EXCEPT !.errors = Append(@, RowError(r.i, msg)), !.i = @ + 1]

\* Mutant of Failed: the row is counted as failed but no message is recorded.
FailedSilently(r, msg) ==
  [r EXCEPT !.failedRecords = @ + 1, !.i = @ + 1]

\* A failed row: one error, failedRecords++, and the loop moves on.
Failed(r, msg) ==
  [r EXCEPT !.errors = Append(@, RowError(r.i, msg)),
            !.failedRecords = @ + 1,
            !.i = @ + 1]

\* setProgress(((i + 1) / totalRecords) * 100), in whole percent
progressAfter(r) == ((r.i + 1) * 100) \div r.totalRecords

\* !row[...] || ... : some required field is falsy
missingRequired(row) == \E c \in requiredColumns : ~Truthy(row[c])

\* new Date(text): isNaN(date.getTime()) unless the text parses
invalidDate(text) == text \notin ParseableDates

\* date.toISOString().split('T')[0] of a parsed ISO date
isoDate(text) == text

\* The insert payload of a row (lines 171-179).
insertPayload(school, row, dateOfBirth) ==
  Student(school, trim(row["Student Name"].v), trim(row["SRN No"].v),
          trim(row["Class"].v), trim(row["Section"].v), dateOfBirth)

\* Start Import: importStudents up to the await of auth.getUser(). The button
\* is disabled while importing, without rows or without a school.
importStudents(p) ==
  /\ ~importing[p]
  /\ Len(importData[p]) # 0
  /\ selectedSchool[p] # ""
  /\ importing' = [importing EXCEPT ![p] = TRUE]
  /\ progress' = [progress EXCEPT ![p] = 0]
  /\ results' = [results EXCEPT ![p] = NoResults]
  /\ run' = [run EXCEPT ![p] =
       [NoRun EXCEPT !.school = selectedSchool[p],
                     !.rows = importData[p],
                     !.totalRecords = Len(importData[p])]]
  /\ pc' = [pc EXCEPT ![p] = "getUser"]
  /\ UNCHANGED <<students, import_logs, faults, selectedSchool, importData,
                 fileInput, reader, picked, toasts, form, dashVars>>

\* auth.getUser() answers: a user, or none when the session cannot be read.
getUser(p) ==
  /\ pc[p] = "getUser"
  /\ \E fault \in FaultChoices :
       /\ faults' = IF fault THEN faults + 1 ELSE faults
       /\ \E u \in Users :
            run' = [run EXCEPT ![p].user = IF fault THEN NoUser ELSE u]
  /\ pc' = [pc EXCEPT ![p] = "row"]
  /\ UNCHANGED <<students, import_logs, selectedSchool, importData, importing,
                 progress, results, fileInput, reader, picked, toasts, form, dashVars>>

\* Loop head and required-field check of row i (lines 135-144); a row that
\* passes sends the uniqueness lookup.
requiredFields(p) ==
  /\ pc[p] = "row"
  /\ run[p].i < Len(run[p].rows)
  /\ LET r == run[p]
         row == r.rows[r.i + 1]
     IN  IF missingRequired(row)
         THEN /\ run' = [run EXCEPT ![p] = Failed(r, "Missing required fields")]
              /\ pc' = pc
         ELSE /\ run' = run
              /\ pc' = [pc EXCEPT ![p] = "validateSRN"]
  /\ UNCHANGED <<students, import_logs, faults, selectedSchool, importData,
                 importing, progress, results, fileInput, reader, picked,
                 toasts, form, dashVars>>

\* Mutant of afterLookup: the date is parsed before the duplicate is reported.
afterLookupDateFirst(r, isUnique) ==
  LET row == r.rows[r.i + 1] IN
  IF invalidDate(row["Date of Birth"].v)
  THEN [run |-> Failed(r, "Invalid date format for Date of Birth"), pc |-> "row"]
  ELSE IF ~isUnique
  THEN [run |-> Failed(r, "SRN already exists"), pc |-> "row"]
  ELSE [run |-> [r EXCEPT !.dateOfBirth = isoDate(row["Date of Birth"].v)],
        pc |-> "insert"]

\* Lines 148-166 once the lookup has answered: a row that is not unique fails
\* as a duplicate, else one whose date does not parse fails, else it is inserted.
afterLookup(r, isUnique) ==
  LET row == r.rows[r.i + 1] IN
  IF ~isUnique
  THEN [run |-> Failed(r, "SRN already exists"), pc |-> "row"]
  ELSE IF invalidDate(row["Date of Birth"].v)
  THEN [run |-> Failed(r, "Invalid date format for Date of Birth"), pc |-> "row"]
  ELSE [run |-> [r EXCEPT !.dateOfBirth = isoDate(row["Date of Birth"].v)],
        pc |-> "insert"]

\* The lookup of validateSRN answers; then the date is parsed and, if it is
\* valid, the insert is sent (lines 146-179).
uniqueAndDate(p) ==
  /\ pc[p] = "validateSRN"
  /\ \E fault \in FaultChoices :
       /\ faults' = IF fault THEN faults + 1 ELSE faults
       /\ LET r == run[p]
              row == r.rows[r.i + 1]
              next == afterLookup(r,
                        validateSRN(students, row["SRN No"].v, r.school, fault))
          IN  /\ run' = [run EXCEPT ![p] = next.run]
              /\ pc' = [pc EXCEPT ![p] = next.pc]
  /\ UNCHANGED <<students, import_logs, selectedSchool, importData, importing,
                 progress, results, fileInput, reader, picked, toasts, form, dashVars>>

\* Mutant of insertRow: the insert's error is not looked at, the row counts
\* as imported whatever the store answered.
insertRowIgnoresError(p) ==
  /\ pc[p] = "insert"
  /\ \E fault \in FaultChoices :
       /\ faults' = IF fault THEN faults + 1 ELSE faults
       /\ LET r == run[p]
              row == r.rows[r.i + 1]
              res == studentsInsert(students,
                       insertPayload(r.school, row, r.dateOfBirth), fault)
          IN  /\ students' = res.table
              /\ run' = [run EXCEPT ![p] =
                   [r EXCEPT !.successfulRecords = @ + 1, !.i = @ + 1,
                             !.dateOfBirth = <<>>]]
              /\ progress' = [progress EXCEPT ![p] = progressAfter(r)]
  /\ pc' = [pc EXCEPT ![p] = "row"]
  /\ UNCHANGED <<import_logs, selectedSchool, importData, importing, results,
                 fileInput, reader, picked, toasts, form, dashVars>>

\* The insert answers (lines 168-192): the store accepts or rejects the row,
\* the tally and the progress bar are updated.
insertRow(p) ==
  /\ pc[p] = "insert"
  /\ \E fault \in FaultChoices :
       /\ faults' = IF fault THEN faults + 1 ELSE faults
       /\ LET r == run[p]
              row == r.rows[r.i + 1]
              res == studentsInsert(students,
                       insertPayload(r.school, row, r.dateOfBirth), fault)
          IN  /\ students' = res.table
              /\ run' = [run EXCEPT ![p] =
                   IF res.error # NoError
                   THEN [Failed(r, res.error) EXCEPT !.dateOfBirth = <<>>]
                   ELSE [r EXCEPT !.successfulRecords = @ + 1, !.i = @ + 1,
                                  !.dateOfBirth = <<>>]]
              /\ progress' = [progress EXCEPT ![p] = progressAfter(r)]
  /\ pc' = [pc EXCEPT ![p] = "row"]
  /\ UNCHANGED <<import_logs, selectedSchool, importData, importing, results,
                 fileInput, reader, picked, toasts, form, dashVars>>

\* The outcome shown by setResults (lines 207-212).
outcome(r) ==
  [total |-> r.totalRecords, successful |-> r.successfulRecords,
   failed |-> r.failedRecords, errors |-> r.errors]

\* The toasts after a run (lines 214-221).
outcomeToasts(r) ==
  {Toast(m, {}) : m \in
     {m \in {"Successfully imported", "records failed to import"} :
        IF m = "Successfully imported" THEN r.successfulRecords > 0
        ELSE r.failedRecords > 0}}

\* setResults, the toasts and finally setImporting(false) (lines 207-228).
Finish(p) ==
  /\ results' = [results EXCEPT ![p] = outcome(run[p])]
  /\ toasts' = [toasts EXCEPT ![p] = outcomeToasts(run[p])]
  /\ importing' = [importing EXCEPT ![p] = FALSE]
  /\ pc' = [pc EXCEPT ![p] = "idle"]
  /\ run' = [run EXCEPT ![p] = NoRun]

\* The loop ends (line 135 false): with a user the log insert is sent, without
\* one the run finishes at once (lines 195-228).
rowsDone(p) ==
  /\ pc[p] = "row"
  /\ run[p].i = Len(run[p].rows)
  /\ IF run[p].user = NoUser
     THEN Finish(p)
     ELSE /\ pc' = [pc EXCEPT ![p] = "log"]
          /\ UNCHANGED <<results, toasts, importing, run, form, dashVars>>
  /\ UNCHANGED <<students, import_logs, faults, selectedSchool, importData,
                 progress, fileInput, reader, picked, form, dashVars>>

\* The entry written to import_logs (lines 197-204).
logEntry(p) ==
  [user_id |-> run[p].user,
   filename |-> IF fileInput[p] # "" THEN fileInput[p] ELSE "unknown",
   total_records |-> run[p].totalRecords,
   successful_records |-> run[p].successfulRecords,
   failed_records |-> run[p].failedRecords,
   errors |-> run[p].errors]

\* The log insert answers (its error is ignored), then the run finishes.
insertLog(p) ==
  /\ pc[p] = "log"
  /\ \E fault \in FaultChoices :
       /\ faults' = IF fault THEN faults + 1 ELSE faults
       /\ import_logs' = IF fault THEN import_logs
                         ELSE import_logs (+) SetToBag({logEntry(p)})
  /\ Finish(p)
  /\ UNCHANGED <<students, selectedSchool, importData, progress, fileInput,
                 reader, picked, form, dashVars>>

\* ------------------------------------------------------------ StudentForm
\* What the form's fields may hold at submit.
FormInputs ==
  {Student("", n, srn, <<"1">>, <<"X">>, GoodDate) :
     n \in {<<"N">>}, srn \in {<<"A">>, <<"B">>, <<>>}}

\* studentData = {...formData, school_id: schoolId}
studentData(schoolId, formData) == [formData EXCEPT !.school_id = schoolId]

\* handleSubmit of a form opened for schoolId and student (NoStudent: a new
\* one) holding formData, up to the await of validateSRN (lines 177-190).
formSubmit(schoolId, student, formData) ==
  /\ form.pc = "idle"
  /\ student = NoStudent \/ (BagIn(student, students) /\ student.school_id = schoolId)
  /\ form' =
       IF formData.student_name = <<>> \/ formData.srn_no = <<>>
            \/ formData.class = <<>> \/ formData.section = <<>>
            \/ formData.date_of_birth = <<>>
       THEN NoForm
       ELSE [pc |-> "validateSRN", schoolId |-> schoolId, student |-> student,
             formData |-> formData]
  /\ UNCHANGED <<students, import_logs, faults, importerVars, dashVars>>

\* validateSRN answers; a unique SRN sends the insert or update (lines 190-225).
\* The optional photo upload in between writes to storage only, not to the
\* students table, and is left out.
formValidated ==
  /\ form.pc = "validateSRN"
  /\ \E fault \in FaultChoices :
       /\ faults' = IF fault THEN faults + 1 ELSE faults
       /\ form' =
            IF formValidateSRN(students, form.formData.srn_no, form.schoolId,
                               form.student, fault)
            THEN [form EXCEPT !.pc = "save"]
            ELSE NoForm
  /\ UNCHANGED <<students, import_logs, importerVars, dashVars>>

\* The insert or update answers (lines 213-239).
formSaved ==
  /\ form.pc = "save"
  /\ \E fault \in FaultChoices :
       /\ faults' = IF fault THEN faults + 1 ELSE faults
       /\ LET rec == studentData(form.schoolId, form.formData)
              res == IF form.student # NoStudent
                     THEN studentsUpdate(students, form.student, rec, fault)
                     ELSE studentsInsert(students, rec, fault)
          IN  /\ students' = res.table
              /\ form' = NoForm
  /\ UNCHANGED <<import_logs, importerVars, dashVars>>

\* ------------------------------------------------- routing and AdminLayout
\* The paths under the /dashboard route a session visits: the index route,
\* which shows Dashboard, and one of the admin pages.
DashboardPaths == {"/dashboard", "/dashboard/students"}

\* What the importer and the form work on.
workVars == <<import_logs, importerVars, form, pageVars>>

\* The user opens a path under /dashboard: the route's element AdminLayout
\* mounts and its effect calls checkUserRole, up to the await of getUser.
openDashboard(path) ==
  /\ layout.pc = "unmounted"
  /\ location' = path
  /\ layout' = [NoLayout EXCEPT !.pc = "getUser"]
  /\ UNCHANGED <<students, faults, workVars, user_profiles, dashboard,
                 schoolDash, adminDash, download>>

\* checkUserRole: auth.getUser() answers (lines 71-75).
layoutGetUser ==
  /\ layout.pc = "getUser"
  /\ \E fault \in FaultChoices, u \in Users :
       /\ faults' = IF fault THEN faults + 1 ELSE faults
       /\ layout' = IF fault
                    THEN [layout EXCEPT !.pc = "done", !.loading = FALSE]
                    ELSE [layout EXCEPT !.pc = "profile", !.user = u]
  /\ UNCHANGED <<students, workVars, user_profiles, location, dashboard,
                 schoolDash, adminDash, download>>

\* checkUserRole: the profile query answers (lines 77-96); .single() is an
\* error when the user has no profile row.
layoutProfile ==
  /\ layout.pc = "profile"
  /\ \E fault \in FaultChoices :
       /\ faults' = IF fault THEN faults + 1 ELSE faults
       /\ layout' =
            IF fault \/ user_profiles[layout.user] = NoProfile
            THEN [layout EXCEPT !.pc = "done", !.loading = FALSE]
            ELSE [layout EXCEPT !.pc = "done", !.loading = FALSE,
                                !.userRole = user_profiles[layout.user].role]
  /\ UNCHANGED <<students, workVars, user_profiles, location, dashboard,
                 schoolDash, adminDash, download>>

\* Mutant of LayoutView: the outlet is shown to every role once loaded.
LayoutViewAnyRole ==
  IF layout.pc = "unmounted" THEN "none"
  ELSE IF layout.loading THEN "Checking permissions"
  ELSE "Outlet"

\* What AdminLayout renders (lines 103-197).
LayoutView ==
  IF layout.pc = "unmounted" THEN "none"
  ELSE IF layout.loading THEN "Checking permissions"
  ELSE IF layout.userRole # "admin" THEN "Navigate"
  ELSE "Outlet"

\* <Navigate to="/dashboard" replace />: the path becomes /dashboard, which
\* is the route of this same layout, so the layout stays as it is.
layoutNavigate ==
  /\ LayoutView = "Navigate"
  /\ location' = "/dashboard"
  /\ UNCHANGED <<students, faults, workVars, user_profiles, layout, dashboard,
                 schoolDash, adminDash, download>>

\* A NavLink of the sidebar: the outlet shows the page of the path; leaving
\* the index route unmounts Dashboard and the dashboard it shows.
navLink(path) ==
  /\ LayoutView = "Outlet"
  /\ location # path
  /\ location' = path
  /\ dashboard' = NoDashboard
  /\ schoolDash' = NoSchoolDash
  /\ adminDash' = NoAdminDash
  /\ UNCHANGED <<students, faults, workVars, user_profiles, layout, download>>

\* -------------------------------------------------------------- Dashboard
\* The outlet renders Dashboard on the index route; its effect calls
\* fetchUserProfile, up to the await of getUser.
dashboardMount ==
  /\ LayoutView = "Outlet"
  /\ location = "/dashboard"
  /\ dashboard.pc = "unmounted"
  /\ dashboard' = [NoDashboard EXCEPT !.pc = "getUser"]
  /\ UNCHANGED <<students, faults, workVars, user_profiles, location, layout,
                 schoolDash, adminDash, download>>

\* fetchUserProfile: auth.getUser() answers (lines 23-25, 55-57).
dashboardGetUser ==
  /\ dashboard.pc = "getUser"
  /\ \E fault \in FaultChoices, u \in Users :
       /\ faults' = IF fault THEN faults + 1 ELSE faults
       /\ dashboard' = IF fault
                       THEN [dashboard EXCEPT !.pc = "done", !.loading = FALSE]
                       ELSE [dashboard EXCEPT !.pc = "profile", !.user = u]
  /\ UNCHANGED <<students, workVars, user_profiles, location, layout,
                 schoolDash, adminDash, download>>

\* fetchUserProfile: the profile query answers (lines 26-57); .maybeSingle()
\* gives no data when the user has no profile row.
dashboardProfile ==
  /\ dashboard.pc = "profile"
  /\ \E fault \in FaultChoices :
       /\ faults' = IF fault THEN faults + 1 ELSE faults
       /\ dashboard' =
            IF fault \/ user_profiles[dashboard.user] = NoProfile
            THEN [dashboard EXCEPT !.pc = "done", !.loading = FALSE]
            ELSE [dashboard EXCEPT !.pc = "done", !.loading = FALSE,
                                   !.userProfile = user_profiles[dashboard.user]]
  /\ UNCHANGED <<students, workVars, user_profiles, location, layout,
                 schoolDash, adminDash, download>>

\* What Dashboard renders (lines 60-109).
DashboardView ==
  IF dashboard.pc = "unmounted" THEN "none"
  ELSE IF dashboard.loading THEN "Loading your dashboard"
  ELSE IF dashboard.userProfile.role = "admin" THEN "AdminDashboard"
  ELSE IF dashboard.userProfile.role = "school" THEN "SchoolDashboard"
  ELSE "Profile Setup Required"

\* UserRoleManagement.handleSubmit for an existing user: an admin sets the
\* role and school of the user's profile (lines 78-91).
updateProfile(u, profile) ==
  /\ user_profiles[u] \notin {NoProfile, profile}
  /\ user_profiles' = [user_profiles EXCEPT ![u] = profile]
  /\ UNCHANGED <<students, faults, workVars, location, layout, dashboard,
                 schoolDash, adminDash, download>>

\* ------------------------------------------------ dashboards: the queries
\* Row-level security of table students for SELECT and DELETE: a school user
\* reaches the students of its school, an admin all of them.
studentsPolicy(profile, rec) ==
  \/ profile.role = "school" /\ rec.school_id = profile.school_id
  \/ profile.role = "admin"

\* The orders a set of rows can come back in (created_at is not modelled).
Orderings(S) ==
  {f \in [1..Cardinality(S) -> S] : \A i, j \in 1..Cardinality(S) : f[i] = f[j] => i = j}

\* Mutant of schoolStudentsQuery: the query leaves out the school filter.
schoolStudentsQueryUnfiltered(tbl, profile, schoolId) ==
  {r \in BagToSet(tbl) : studentsPolicy(profile, r)}

\* SchoolDashboard.fetchStudents: .from("students").select("*")
\* .eq("school_id", userProfile.school_id), as the store answers it for a
\* user whose profile row is profile.
schoolStudentsQuery(tbl, profile, schoolId) ==
  {r \in BagToSet(tbl) : studentsPolicy(profile, r) /\ r.school_id = schoolId}

\* AdminDashboard.fetchStudents: the school filter applies when one is set.
adminStudentsQuery(tbl, profile, school) ==
  {r \in BagToSet(tbl) :
     studentsPolicy(profile, r) /\ (school # "" => r.school_id = school)}

\* .limit(100)
limit(list, n) == IF Len(list) > n THEN SubSeq(list, 1, n) ELSE list

\* ------------------------------------------------------- dashboards: export
SchoolColumns ==
  requiredColumns \cup {"School", "Block", "Registration Date", "Photo Filename"}
AdminColumns ==
  requiredColumns \cup {"School", "Block", "District", "State", "Registration Date"}

\* One exported object: the five student fields as text cells (the further
\* columns are not read back by the importer).
exportData(student) ==
  MkRow(Str(student.student_name), Str(student.srn_no), Str(student.class),
        Str(student.section), Str(student.date_of_birth))

\* XLSX.utils.json_to_sheet: the header row is made of the keys of the
\* objects, so a sheet of no objects has no header row either.
json_to_sheet(rows, columns) ==
  [header |-> IF rows = <<>> THEN {} ELSE columns, rows |-> rows]

\* exportToExcel of both dashboards: the workbook written for a list.
exportToExcel(list, columns, name) ==
  LET ws == json_to_sheet([k \in 1..Len(list) |-> exportData(list[k])], columns)
  IN  [name |-> name, readable |-> TRUE, header |-> ws.header, rows |-> ws.rows]

\* `${userProfile?.school?.name}_students_${date}.xlsx`
schoolFileName(schoolId) ==
  IF schoolId = "s1" THEN "s1_students.xlsx" ELSE "s2_students.xlsx"

\* -------------------------------------------------------- SchoolDashboard
\* Dashboard renders SchoolDashboard; its effect calls fetchStudents when the
\* profile has a school (lines 25-39).
schoolDashMount ==
  /\ DashboardView = "SchoolDashboard"
  /\ schoolDash.pc = "unmounted"
  /\ schoolDash' =
       [NoSchoolDash EXCEPT
          !.pc = IF dashboard.userProfile.school_id # "" THEN "fetch" ELSE "idle"]
  /\ UNCHANGED <<students, faults, workVars, user_profiles, location, layout,
                 dashboard, adminDash, download>>

\* fetchStudents: the query answers (lines 41-47).
schoolFetched ==
  /\ schoolDash.pc = "fetch"
  /\ \E fault \in FaultChoices :
       /\ faults' = IF fault THEN faults + 1 ELSE faults
       /\ \E list \in Orderings(schoolStudentsQuery(students,
                        user_profiles[dashboard.user],
                        dashboard.userProfile.school_id)) :
            schoolDash' =
              [schoolDash EXCEPT !.pc = "idle", !.loading = FALSE,
                                 !.students = IF fault THEN @ ELSE list]
  /\ UNCHANGED <<students, workVars, user_profiles, location, layout,
                 dashboard, adminDash, download>>

\* handleDeleteStudent: the delete answers and, without an error, the list is
\* fetched again (lines 56-70); the store deletes the row if the policy lets
\* the user reach it.
handleDeleteStudent(k) ==
  /\ schoolDash.pc = "idle" /\ ~schoolDash.loading
  /\ k \in 1..Len(schoolDash.students)
  /\ \E fault \in FaultChoices :
       /\ faults' = IF fault THEN faults + 1 ELSE faults
       /\ LET rec == schoolDash.students[k] IN
          students' =
            IF ~fault /\ BagIn(rec, students)
                 /\ studentsPolicy(user_profiles[dashboard.user], rec)
            THEN students (-) SetToBag({rec})
            ELSE students
       /\ schoolDash' = IF fault THEN schoolDash
                        ELSE [schoolDash EXCEPT !.pc = "fetch", !.loading = TRUE]
  /\ UNCHANGED <<workVars, user_profiles, location, layout, dashboard,
                 adminDash, download>>

\* SchoolDashboard.exportToExcel; the button is disabled for an empty list.
schoolExportToExcel ==
  /\ schoolDash.pc # "unmounted" /\ ~schoolDash.loading
  /\ Len(schoolDash.students) # 0
  /\ download' = exportToExcel(schoolDash.students, SchoolColumns,
                               schoolFileName(dashboard.userProfile.school_id))
  /\ UNCHANGED <<students, faults, workVars, user_profiles, location, layout,
                 dashboard, schoolDash, adminDash>>

\* --------------------------------------------------------- AdminDashboard
\* Dashboard renders AdminDashboard; its effects send the first query.
adminDashMount ==
  /\ DashboardView = "AdminDashboard"
  /\ ~adminDash.mounted
  /\ adminDash' = [NoAdminDash EXCEPT !.mounted = TRUE, !.pending = {""}]
  /\ UNCHANGED <<students, faults, workVars, user_profiles, location, layout,
                 dashboard, schoolDash, download>>

\* The school filter changes; the effect on filters sends a new query.
adminSetSchoolFilter(school) ==
  /\ adminDash.mounted
  /\ adminDash.school # school
  /\ adminDash' = [adminDash EXCEPT !.school = school, !.pending = @ \cup {school}]
  /\ UNCHANGED <<students, faults, workVars, user_profiles, location, layout,
                 dashboard, schoolDash, download>>

\* AdminDashboard.fetchStudents: the query sent for filter school answers.
adminFetched(school) ==
  /\ school \in adminDash.pending
  /\ \E fault \in FaultChoices :
       /\ faults' = IF fault THEN faults + 1 ELSE faults
       /\ \E list \in Orderings(adminStudentsQuery(students,
                        user_profiles[dashboard.user], school)) :
            adminDash' =
              [adminDash EXCEPT !.pending = @ \ {school},
                                !.students = IF fault THEN @ ELSE limit(list, 100)]
  /\ UNCHANGED <<students, workVars, user_profiles, location, layout,
                 dashboard, schoolDash, download>>

\* AdminDashboard.exportToExcel; the button is always enabled.
adminExportToExcel ==
  /\ adminDash.mounted
  /\ download' = exportToExcel(adminDash.students, AdminColumns,
                               "students_export.xlsx")
  /\ UNCHANGED <<students, faults, workVars, user_profiles, location, layout,
                 dashboard, schoolDash, adminDash>>

\* -------------------------------------------------------------- StatesPage
\* What the admin pages leave alone, the fault count aside.
besidePages ==
  <<students, import_logs, importerVars, form, user_profiles, location, layout,
    dashboard, schoolDash, adminDash, download, accountVars>>

\* UNIQUE name and UNIQUE code of table states: would row break them?
statesUnique(tbl, row) ==
  \A r \in tbl : r.id = row.id \/ (r.name # row.name /\ r.code # row.code)

\* supabase.from("states").update(data).eq("id", id)
statesUpdate(tbl, id, data, fault) ==
  LET row == StateRow(id, data.name, data.code) IN
  IF fault \/ ~statesUnique(tbl, row) THEN [error |-> TRUE, table |-> tbl]
  ELSE [error |-> FALSE,
        table |-> {IF r.id = id THEN row ELSE r : r \in tbl}]

\* supabase.from("states").insert([data])
statesInsert(tbl, data, fault) ==
  LET id == CHOOSE i \in {"st1", "st2", "st3"} : \A r \in tbl : r.id # i
      row == StateRow(id, data.name, data.code)
  IN  IF fault \/ ~statesUnique(tbl, row) THEN [error |-> TRUE, table |-> tbl]
      ELSE [error |-> FALSE, table |-> tbl \cup {row}]

\* The Add State trigger: onOpenChange(true). Dialogs are modal, so no other
\* dialog is open.
statesOpenAdd ==
  /\ ~statesPage.isAddDialogOpen
  /\ statesPage.editingState = NoState
  /\ statesPage' = [statesPage EXCEPT !.isAddDialogOpen = TRUE]
  /\ UNCHANGED <<states, blocks, blocksPage, faults, besidePages>>

\* Cancel of the add dialog or its dismissal: setIsAddDialogOpen(false).
statesCloseAdd ==
  /\ statesPage.isAddDialogOpen
  /\ statesPage' = [statesPage EXCEPT !.isAddDialogOpen = FALSE]
  /\ UNCHANGED <<states, blocks, blocksPage, faults, besidePages>>

\* Typing into a field of the open dialog: setFormData(prev => ...).
statesSetFormData(field, value) ==
  /\ statesPage.isAddDialogOpen \/ statesPage.editingState # NoState
  /\ statesPage.formData[field] # value
  /\ statesPage' = [statesPage EXCEPT !.formData[field] = value]
  /\ UNCHANGED <<states, blocks, blocksPage, faults, besidePages>>

\* StatesPage.handleEdit
statesHandleEdit(state) ==
  /\ ~statesPage.isAddDialogOpen
  /\ statesPage.editingState = NoState
  /\ state \in states
  /\ statesPage' = [statesPage EXCEPT
       !.editingState = state,
       !.formData = [name |-> state.name, code |-> state.code]]
  /\ UNCHANGED <<states, blocks, blocksPage, faults, besidePages>>

\* Cancel of the edit dialog or its dismissal: setEditingState(null).
statesCancelEdit ==
  /\ statesPage.editingState # NoState
  /\ statesPage' = [statesPage EXCEPT !.editingState = NoState]
  /\ UNCHANGED <<states, blocks, blocksPage, faults, besidePages>>

\* StatesPage.handleSubmit up to its await; both fields are required inputs.
statesHandleSubmit ==
  /\ statesPage.pc = "idle"
  /\ statesPage.isAddDialogOpen \/ statesPage.editingState # NoState
  /\ statesPage.formData.name # "" /\ statesPage.formData.code # ""
  /\ statesPage' = [statesPage EXCEPT
       !.pc = "await",
       !.submitted = [editingState |-> statesPage.editingState,
                      formData |-> statesPage.formData]]
  /\ UNCHANGED <<states, blocks, blocksPage, faults, besidePages>>

\* The update or insert answers; the form is emptied whatever the answer.
statesSubmitted ==
  /\ statesPage.pc = "await"
  /\ \E fault \in FaultChoices :
       /\ faults' = IF fault THEN faults + 1 ELSE faults
       /\ LET sub == statesPage.submitted
              editing == sub.editingState # NoState
              res == IF editing
                     THEN statesUpdate(states, sub.editingState.id, sub.formData, fault)
                     ELSE statesInsert(states, sub.formData, fault)
          IN  /\ states' = res.table
              /\ statesPage' = [statesPage EXCEPT
                   !.pc = "idle",
                   !.submitted = NoStatesPage.submitted,
                   !.editingState = IF editing /\ ~res.error THEN NoState ELSE @,
                   !.isAddDialogOpen = IF ~editing /\ ~res.error THEN FALSE ELSE @,
                   !.formData = EmptyStateForm]
  /\ UNCHANGED <<blocks, blocksPage, besidePages>>

\* -------------------------------------------------------------- BlocksPage
\* district_id REFERENCES districts(id) NOT NULL, UNIQUE(district_id, name)
\* and UNIQUE(district_id, code) of table blocks: may row be stored?
blocksAccepts(tbl, row) ==
  /\ \E d \in districtsTable : d.id = row.district_id
  /\ \A r \in tbl :
       r.id = row.id \/ r.district_id # row.district_id
         \/ (r.name # row.name /\ r.code # row.code)

\* supabase.from("blocks").update(submitData).eq("id", id)
blocksUpdate(tbl, id, data, fault) ==
  LET row == BlockRow(id, data.name, data.code, data.district_id) IN
  IF fault \/ ~blocksAccepts(tbl, row) THEN [error |-> TRUE, table |-> tbl]
  ELSE [error |-> FALSE,
        table |-> {IF r.id = id THEN row ELSE r : r \in tbl}]

\* supabase.from("blocks").insert([submitData])
blocksInsert(tbl, data, fault) ==
  LET id == CHOOSE i \in {"b1", "b2", "b3", "b4", "b5"} : \A r \in tbl : r.id # i
      row == BlockRow(id, data.name, data.code, data.district_id)
  IN  IF fault \/ ~blocksAccepts(tbl, row) THEN [error |-> TRUE, table |-> tbl]
      ELSE [error |-> FALSE, table |-> tbl \cup {row}]

\* The dependencies of the effect on [formData.state_id, districts].
blocksDeps == <<blocksPage.formData.state_id, blocksPage.districts>>

\* The effect has run for the state rendered last: React runs it before the
\* next event is handled.
blocksSettled == blocksPage.deps = blocksDeps

\* The formData the effect on formData.state_id leaves (lines 62-68).
stateEffectForm(formData) ==
  IF formData.state_id # "" THEN [formData EXCEPT !.district_id = ""]
  ELSE formData

\* The effect on [formData.state_id, districts] (lines 61-69).
blocksStateEffect ==
  /\ ~blocksSettled
  /\ blocksPage' = [blocksPage EXCEPT
       !.filteredDistricts =
          IF blocksPage.formData.state_id # ""
          THEN {d \in blocksPage.districts :
                  d.state_id = blocksPage.formData.state_id}
          ELSE {},
       !.formData = stateEffectForm(@),
       !.deps = blocksDeps]
  /\ UNCHANGED <<states, blocks, statesPage, faults, besidePages>>

\* fetchDistricts answers.
blocksFetchedDistricts ==
  /\ blocksSettled
  /\ blocksPage.fetching
  /\ \E fault \in FaultChoices :
       /\ faults' = IF fault THEN faults + 1 ELSE faults
       /\ blocksPage' = [blocksPage EXCEPT
            !.fetching = FALSE,
            !.districts = IF fault THEN @ ELSE districtsTable]
  /\ UNCHANGED <<states, blocks, statesPage, besidePages>>

\* The Add Block trigger: onOpenChange(true).
blocksOpenAdd ==
  /\ blocksSettled
  /\ ~blocksPage.isAddDialogOpen
  /\ blocksPage.editingBlock = NoBlock
  /\ blocksPage' = [blocksPage EXCEPT !.isAddDialogOpen = TRUE]
  /\ UNCHANGED <<states, blocks, statesPage, faults, besidePages>>

\* Cancel of the add dialog or its dismissal: setIsAddDialogOpen(false).
blocksCloseAdd ==
  /\ blocksSettled
  /\ blocksPage.isAddDialogOpen
  /\ blocksPage' = [blocksPage EXCEPT !.isAddDialogOpen = FALSE]
  /\ UNCHANGED <<states, blocks, statesPage, faults, besidePages>>

\* The values a field of the open dialog can be given: text for name and
\* code, a listed state, a district of filteredDistricts once a state is set.
blocksFieldValues(field) ==
  CASE field = "name" -> {"South"}
    [] field = "code" -> {"S"}
    [] field = "state_id" -> {r.id : r \in states}
    [] OTHER -> IF blocksPage.formData.state_id = "" THEN {}
                ELSE {d.id : d \in blocksPage.filteredDistricts}

\* A field of the open dialog changes: setFormData(prev => ...).
blocksSetFormData(field, value) ==
  /\ blocksSettled
  /\ blocksPage.isAddDialogOpen \/ blocksPage.editingBlock # NoBlock
  /\ value \in blocksFieldValues(field)
  /\ blocksPage.formData[field] # value
  /\ blocksPage' = [blocksPage EXCEPT !.formData[field] = value]
  /\ UNCHANGED <<states, blocks, statesPage, faults, besidePages>>

\* districts.find(d => d.id === block.district_id)?.state_id || ""
stateOfDistrict(districts, districtId) ==
  IF \E d \in districts : d.id = districtId
  THEN (CHOOSE d \in districts : d.id = districtId).state_id
  ELSE ""

\* BlocksPage.handleEdit (lines 157-166)
blocksHandleEdit(block) ==
  /\ blocksSettled
  /\ ~blocksPage.isAddDialogOpen
  /\ blocksPage.editingBlock = NoBlock
  /\ block \in blocks
  /\ blocksPage' = [blocksPage EXCEPT
       !.editingBlock = block,
       !.formData = [name |-> block.name, code |-> block.code,
                     state_id |-> stateOfDistrict(blocksPage.districts,
                                                  block.district_id),
                     district_id |-> block.district_id]]
  /\ UNCHANGED <<states, blocks, statesPage, faults, besidePages>>

\* Cancel of the edit dialog or its dismissal: setEditingBlock(null).
blocksCancelEdit ==
  /\ blocksSettled
  /\ blocksPage.editingBlock # NoBlock
  /\ blocksPage' = [blocksPage EXCEPT !.editingBlock = NoBlock]
  /\ UNCHANGED <<states, blocks, statesPage, faults, besidePages>>

\* BlocksPage.handleSubmit up to its await (lines 118-131). Name and code are
\* required inputs; only the add dialog's button needs a district.
blocksHandleSubmit ==
  /\ blocksSettled
  /\ blocksPage.pc = "idle"
  /\ \/ blocksPage.isAddDialogOpen /\ blocksPage.formData.district_id # ""
     \/ blocksPage.editingBlock # NoBlock
  /\ blocksPage.formData.name # "" /\ blocksPage.formData.code # ""
  /\ blocksPage' = [blocksPage EXCEPT
       !.pc = "await",
       !.submitted = [editingBlock |-> blocksPage.editingBlock,
                      name |-> blocksPage.formData.name,
                      code |-> blocksPage.formData.code,
                      district_id |-> blocksPage.formData.district_id]]
  /\ UNCHANGED <<states, blocks, statesPage, faults, besidePages>>

\* The update or insert answers; the form is emptied whatever the answer
\* (lines 133-154).
blocksSubmitted ==
  /\ blocksSettled
  /\ blocksPage.pc = "await"
  /\ \E fault \in FaultChoices :
       /\ faults' = IF fault THEN faults + 1 ELSE faults
       /\ LET sub == blocksPage.submitted
              editing == sub.editingBlock # NoBlock
              res == IF editing
                     THEN blocksUpdate(blocks, sub.editingBlock.id, sub, fault)
                     ELSE blocksInsert(blocks, sub, fault)
          IN  /\ blocks' = res.table
              /\ blocksPage' = [blocksPage EXCEPT
                   !.pc = "idle",
                   !.submitted = NoBlocksPage.submitted,
                   !.editingBlock = IF editing /\ ~res.error THEN NoBlock ELSE @,
                   !.isAddDialogOpen = IF ~editing /\ ~res.error THEN FALSE ELSE @,
                   !.formData = EmptyBlockForm]
  /\ UNCHANGED <<states, statesPage, besidePages>>

\* ------------------------------------------------------ creating accounts
\* What creating accounts leaves alone, the fault count aside.
besideAccounts ==
  <<students, import_logs, importerVars, form, location, layout, dashboard,
    schoolDash, adminDash, download, states, blocks, statesPage, blocksPage>>

\* The emails accounts are created for.
NewEmails == {"e1", "e2"}

\* Whether a user has a row in user_profiles.
HasProfile(tbl, user) == user \in DOMAIN tbl /\ tbl[user] # NoProfile

\* supabase.auth.signUp: an error for a failed call or a registered email,
\* else the account exists from now on.
signUp(accounts, email, fault) ==
  IF fault \/ email \in accounts THEN [error |-> TRUE, accounts |-> accounts]
  ELSE [error |-> FALSE, accounts |-> accounts \cup {email}]

\* CONSTRAINT check_school_role of user_profiles ("" is NULL).
check_school_role(role, school_id) ==
  \/ role = "admin" /\ school_id = ""
  \/ role = "school" /\ school_id # ""

\* supabase.from("user_profiles").insert(...): user_id is UNIQUE and the row
\* must satisfy check_school_role.
profilesInsert(tbl, user, role, school_id, fault) ==
  IF fault \/ HasProfile(tbl, user) \/ ~check_school_role(role, school_id)
  THEN [error |-> TRUE, table |-> tbl]
  ELSE [error |-> FALSE,
        table |-> [u \in DOMAIN tbl \cup {user} |->
                     IF u = user THEN [role |-> role, school_id |-> school_id]
                     ELSE tbl[u]]]

\* What the create form of UserRoleManagement may hold at submit; choosing a
\* role other than 'school' empties school_id (line 248).
UserForms ==
  {f \in [email : NewEmails, role : {"admin", "school", "editor"},
          school_id : {"", "s1"}] :
     f.role # "school" => f.school_id = ""}

\* UserRoleManagement.handleSubmit in create mode, up to the await of signUp
\* (lines 64-103); a school user without a school is refused.
userHandleSubmit(formData) ==
  /\ userMgmt.pc = "idle"
  /\ ~(formData.role = "school" /\ formData.school_id = "")
  /\ userMgmt' = [pc |-> "signUp", formData |-> formData]
  /\ UNCHANGED <<faults, user_profiles, auth_users, schools, schoolsPage,
                 besideAccounts>>

\* signUp answers (lines 94-107): an error is thrown to the catch.
userSignedUp ==
  /\ userMgmt.pc = "signUp"
  /\ \E fault \in FaultChoices :
       /\ faults' = IF fault THEN faults + 1 ELSE faults
       /\ LET res == signUp(auth_users, userMgmt.formData.email, fault) IN
            /\ auth_users' = res.accounts
            /\ userMgmt' = IF res.error THEN NoUserMgmt
                           ELSE [userMgmt EXCEPT !.pc = "profile"]
  /\ UNCHANGED <<user_profiles, schools, schoolsPage, besideAccounts>>

\* The profile insert answers (lines 109-138): an error is thrown to the
\* catch, which shows a toast; the form is reset on success.
userProfileInserted ==
  /\ userMgmt.pc = "profile"
  /\ \E fault \in FaultChoices :
       /\ faults' = IF fault THEN faults + 1 ELSE faults
       /\ LET f == userMgmt.formData
              res == profilesInsert(user_profiles, f.email, f.role,
                       IF f.role = "school" THEN f.school_id ELSE "", fault)
          IN  user_profiles' = res.table
  /\ userMgmt' = NoUserMgmt
  /\ UNCHANGED <<auth_users, schools, schoolsPage, besideAccounts>>

\* What the add form of SchoolsPage may hold at submit.
SchoolForms == [code : {"c3"}, block_id : {"b1"}, login_email : NewEmails]

\* UNIQUE code of table schools and its block reference.
schoolsInsert(tbl, data, fault) ==
  LET id == CHOOSE i \in {"s3", "s4"} : \A r \in tbl : r.id # i IN
  IF fault \/ (\E r \in tbl : r.code = data.code)
       \/ ~(\E b \in blocks : b.id = data.block_id)
  THEN [error |-> TRUE, table |-> tbl, id |-> ""]
  ELSE [error |-> FALSE, id |-> id,
        table |-> tbl \cup {SchoolRow(id, data.code, data.block_id)}]

\* SchoolsPage.handleSubmit in create mode, up to the await of the school
\* insert (lines 209-239); the button needs a block and, with login
\* credentials ticked, the login fields.
schoolsHandleSubmit(formData, createLogin) ==
  /\ schoolsPage.pc = "idle"
  /\ schoolsPage' = [pc |-> "insert", formData |-> formData,
                     createLoginCredentials |-> createLogin, schoolId |-> ""]
  /\ UNCHANGED <<faults, user_profiles, auth_users, schools, userMgmt,
                 besideAccounts>>

\* The school insert answers (lines 241-262): on success createUserAccount
\* is called if login credentials were asked for.
schoolsInserted ==
  /\ schoolsPage.pc = "insert"
  /\ \E fault \in FaultChoices :
       /\ faults' = IF fault THEN faults + 1 ELSE faults
       /\ LET res == schoolsInsert(schools, schoolsPage.formData, fault) IN
            /\ schools' = res.table
            /\ schoolsPage' =
                 IF res.error \/ ~schoolsPage.createLoginCredentials
                 THEN NoSchoolsPage
                 ELSE [schoolsPage EXCEPT !.pc = "signUp", !.schoolId = res.id]
  /\ UNCHANGED <<user_profiles, auth_users, userMgmt, besideAccounts>>

\* createUserAccount: signUp answers (lines 171-184); an error is caught.
schoolsSignedUp ==
  /\ schoolsPage.pc = "signUp"
  /\ \E fault \in FaultChoices :
       /\ faults' = IF fault THEN faults + 1 ELSE faults
       /\ LET res == signUp(auth_users, schoolsPage.formData.login_email, fault)
          IN  /\ auth_users' = res.accounts
              /\ schoolsPage' = IF res.error THEN NoSchoolsPage
                                ELSE [schoolsPage EXCEPT !.pc = "profile"]
  /\ UNCHANGED <<user_profiles, schools, userMgmt, besideAccounts>>

\* createUserAccount: the profile insert answers (lines 186-201); its error
\* is only shown in a toast.
schoolsProfileInserted ==
  /\ schoolsPage.pc = "profile"
  /\ \E fault \in FaultChoices :
       /\ faults' = IF fault THEN faults + 1 ELSE faults
       /\ user_profiles' =
            profilesInsert(user_profiles, schoolsPage.formData.login_email,
                           "school", schoolsPage.schoolId, fault).table
  /\ schoolsPage' = NoSchoolsPage
  /\ UNCHANGED <<auth_users, schools, userMgmt, besideAccounts>>

\* ------------------------------------------------------------ specification
\* One importer session: importer i1 picks one file, imports into school s1
\* and runs the import once. Its files: every sheet of up to MaxRows rows under
\* the full header, sheets under every deficient header, and an unreadable file.
Files ==
  SheetFiles({requiredColumns}, SheetRows, MaxRows)
    \cup SheetFiles(SUBSET requiredColumns \ {requiredColumns}, {RowA}, MaxRows)
    \cup UnreadableFiles

Next ==
  \E p \in {"i1"} :
    \/ \E s \in {"s1"} : setSelectedSchool(p, s)
    \/ \E file \in Files : ~picked[p] /\ handleFileSelect(p, file)
    \/ readerOnload(p)
    \/ clearImport(p)
    \/ results[p] = NoResults /\ importStudents(p)
    \/ getUser(p)
    \/ requiredFields(p)
    \/ uniqueAndDate(p)
    \/ insertRow(p)
    \/ rowsDone(p)
    \/ insertLog(p)

Spec == Init /\ [][Next]_vars

\* Two importer sessions and a student form working on school s1 at once,
\* each importer with a sheet of up to MaxRaceRows rows.
RaceFiles == SheetFiles({requiredColumns}, {RowA}, MaxRaceRows)

NextRace ==
  \/ \E p \in Importers :
       \/ setSelectedSchool(p, "s1")
       \/ \E file \in RaceFiles : ~picked[p] /\ handleFileSelect(p, file)
       \/ readerOnload(p)
       \/ results[p] = NoResults /\ importStudents(p)
       \/ getUser(p)
       \/ requiredFields(p)
       \/ uniqueAndDate(p)
       \/ insertRow(p)
       \/ rowsDone(p)
       \/ insertLog(p)
  \/ \E student \in {NoStudent} \cup BagToSet(students), formData \in FormInputs :
       formSubmit("s1", student, formData)
  \/ formValidated
  \/ formSaved

\* In this specification the store answers every call: the fault budget is
\* used up from the start.
InitRace ==
  /\ students \in InitStores
  /\ import_logs = EmptyBag
  /\ faults = MaxFaults
  /\ selectedSchool = [p \in Importers |-> ""]
  /\ importData = [p \in Importers |-> <<>>]
  /\ importing = [p \in Importers |-> FALSE]
  /\ progress = [p \in Importers |-> 0]
  /\ results = [p \in Importers |-> NoResults]
  /\ fileInput = [p \in Importers |-> ""]
  /\ reader = [p \in Importers |-> NoFile]
  /\ picked = [p \in Importers |-> FALSE]
  /\ toasts = [p \in Importers |-> {}]
  /\ pc = [p \in Importers |-> "idle"]
  /\ run = [p \in Importers |-> NoRun]
  /\ form = NoForm
  /\ InitDashboards

SpecRace == InitRace /\ [][NextRace]_vars

\* One importer session of several selections, clears and runs into school
\* s1. The files at hand, each name with one content: a.xlsx holds a valid
\* row, b.xlsx a row whose name is one blank, c.xlsx lacks the Section column,
\* e.xlsx has an empty sheet and u.xlsx cannot be parsed.
FileA == [name |-> "a.xlsx", readable |-> TRUE, header |-> requiredColumns,
          rows |-> <<RowA>>]
FileB == [name |-> "b.xlsx", readable |-> TRUE, header |-> requiredColumns,
          rows |-> <<RowSpName>>]
FileC == [name |-> "c.xlsx", readable |-> TRUE,
          header |-> requiredColumns \ {"Section"}, rows |-> <<RowA>>]
FileE == [name |-> "e.xlsx", readable |-> TRUE, header |-> requiredColumns,
          rows |-> <<>>]
FileU == [name |-> "u.xlsx", readable |-> FALSE, header |-> {}, rows |-> <<>>]

SessionFiles == {FileA, FileB, FileC, FileE, FileU}

NextSession ==
  \E p \in {"i1"} :
    \/ setSelectedSchool(p, "s1")
    \/ \E file \in SessionFiles : handleFileSelect(p, file)
    \/ readerOnload(p)
    \/ clearImport(p)
    \/ BagCardinality(import_logs) < MaxLogs /\ importStudents(p)
    \/ getUser(p)
    \/ requiredFields(p)
    \/ uniqueAndDate(p)
    \/ insertRow(p)
    \/ rowsDone(p)
    \/ insertLog(p)

SpecSession == Init /\ [][NextSession]_vars

\* An admin at work on the States page: dialogs are opened, filled, cancelled
\* and submitted, and the store may fail.
NextStatesPage ==
  \/ statesOpenAdd
  \/ statesCloseAdd
  \/ statesSetFormData("name", "Kerala")
  \/ statesSetFormData("code", "KL")
  \/ \E state \in states : statesHandleEdit(state)
  \/ statesCancelEdit
  \/ statesHandleSubmit
  \/ statesSubmitted

SpecStatesPage == Init /\ [][NextStatesPage]_vars

\* An admin at work on the Blocks page, the same way.
NextBlocksPage ==
  \/ blocksStateEffect
  \/ blocksFetchedDistricts
  \/ blocksOpenAdd
  \/ blocksCloseAdd
  \/ \E field \in DOMAIN EmptyBlockForm :
       \E value \in blocksFieldValues(field) : blocksSetFormData(field, value)
  \/ \E block \in blocks : blocksHandleEdit(block)
  \/ blocksCancelEdit
  \/ blocksHandleSubmit
  \/ blocksSubmitted

SpecBlocksPage == Init /\ [][NextBlocksPage]_vars

\* An admin creates accounts, from the user management form and from the
\* school form with login credentials; the store may fail.
NextAccounts ==
  \/ \E formData \in UserForms : userHandleSubmit(formData)
  \/ userSignedUp
  \/ userProfileInserted
  \/ \E formData \in SchoolForms, createLogin \in BOOLEAN :
       schoolsHandleSubmit(formData, createLogin)
  \/ schoolsInserted
  \/ schoolsSignedUp
  \/ schoolsProfileInserted

SpecAccounts == Init /\ [][NextAccounts]_vars

\* The dashboards of one signed-in user, whose profile an admin may edit
\* meanwhile. The tables the session may find: no students, or students of
\* both schools.
DashStores ==
  {EmptyBag,
   SetToBag({Student("s1", <<"N">>, <<"A">>, <<"1">>, <<"X">>, GoodDate),
             Student("s1", <<"N">>, <<"B">>, <<"1">>, <<"X">>, GoodDate),
             Student("s2", <<"O">>, <<"A">>, <<"1">>, <<"X">>, GoodDate)})}

InitDashboardsWith(f) ==
  /\ students \in DashStores
  /\ import_logs = EmptyBag
  /\ faults = f
  /\ selectedSchool = [p \in Importers |-> ""]
  /\ importData = [p \in Importers |-> <<>>]
  /\ importing = [p \in Importers |-> FALSE]
  /\ progress = [p \in Importers |-> 0]
  /\ results = [p \in Importers |-> NoResults]
  /\ fileInput = [p \in Importers |-> ""]
  /\ reader = [p \in Importers |-> NoFile]
  /\ picked = [p \in Importers |-> FALSE]
  /\ toasts = [p \in Importers |-> {}]
  /\ pc = [p \in Importers |-> "idle"]
  /\ run = [p \in Importers |-> NoRun]
  /\ form = NoForm
  /\ user_profiles \in [Users -> Profiles \cup {NoProfile}]
  /\ location = "/"
  /\ layout = NoLayout
  /\ dashboard = NoDashboard
  /\ schoolDash = NoSchoolDash
  /\ adminDash = NoAdminDash
  /\ download = NoFile
  /\ InitPages

InitDash == InitDashboardsWith(0)

NextDash ==
  \/ \E path \in DashboardPaths : openDashboard(path)
  \/ layoutGetUser
  \/ layoutProfile
  \/ layoutNavigate
  \/ \E path \in DashboardPaths : navLink(path)
  \/ dashboardMount
  \/ dashboardGetUser
  \/ dashboardProfile
  \/ \E u \in Users, profile \in Profiles : updateProfile(u, profile)
  \/ schoolDashMount
  \/ schoolFetched
  \/ \E k \in 1..Len(schoolDash.students) : handleDeleteStudent(k)
  \/ schoolExportToExcel
  \/ adminDashMount
  \/ \E school \in Schools \cup {""} : adminSetSchoolFilter(school)
  \/ \E school \in Schools \cup {""} : adminFetched(school)
  \/ adminExportToExcel

SpecDash == InitDash /\ [][NextDash]_vars

\* A user who opens a path under /dashboard and stays on it, the store
\* answering every call and the profile staying as it is. What the app does
\* by itself (an answer arriving, an effect running) happens sooner or later.
InitNav == InitDashboardsWith(MaxFaults)

NextNav ==
  \/ \E path \in DashboardPaths : openDashboard(path)
  \/ layoutGetUser
  \/ layoutProfile
  \/ layoutNavigate
  \/ dashboardMount
  \/ dashboardGetUser
  \/ dashboardProfile
  \/ adminDashMount
  \/ \E school \in Schools \cup {""} : adminSetSchoolFilter(school)
  \/ \E school \in Schools \cup {""} : adminFetched(school)
  \/ adminExportToExcel

SpecNav ==
  /\ InitNav
  /\ [][NextNav]_vars
  /\ WF_vars(layoutGetUser) /\ WF_vars(layoutProfile) /\ WF_vars(layoutNavigate)
  /\ WF_vars(dashboardMount) /\ WF_vars(dashboardGetUser)
  /\ WF_vars(dashboardProfile) /\ WF_vars(adminDashMount)
  /\ WF_vars(\E school \in Schools \cup {""} : adminFetched(school))

\* Export and import again: an admin imports a.xlsx or b.xlsx into school s1
\* while Dashboard, holding the profile of a user of s1, shows the School
\* Dashboard, which lists the school's students and exports them; the
\* workbook written can then be selected in the importer. The store answers
\* every call and nobody else writes to it.
InitRoundTrip ==
  /\ students \in InitStores
  /\ import_logs = EmptyBag
  /\ faults = MaxFaults
  /\ selectedSchool = [p \in Importers |-> ""]
  /\ importData = [p \in Importers |-> <<>>]
  /\ importing = [p \in Importers |-> FALSE]
  /\ progress = [p \in Importers |-> 0]
  /\ results = [p \in Importers |-> NoResults]
  /\ fileInput = [p \in Importers |-> ""]
  /\ reader = [p \in Importers |-> NoFile]
  /\ picked = [p \in Importers |-> FALSE]
  /\ toasts = [p \in Importers |-> {}]
  /\ pc = [p \in Importers |-> "idle"]
  /\ run = [p \in Importers |-> NoRun]
  /\ form = NoForm
  /\ user_profiles = [u \in Users |-> SchoolProfile("s1")]
  /\ location = "/dashboard"
  /\ \E u \in Users :
       /\ layout = [pc |-> "done", loading |-> FALSE, user |-> u,
                    userRole |-> "admin"]
       /\ dashboard = [pc |-> "done", loading |-> FALSE, user |-> u,
                       userProfile |-> SchoolProfile("s1")]
  /\ schoolDash = NoSchoolDash
  /\ adminDash = NoAdminDash
  /\ download = NoFile
  /\ InitPages

NextRoundTrip ==
  \/ \E p \in {"i1"} :
       \/ setSelectedSchool(p, "s1")
       \/ \E file \in {FileA, FileB, download} \ {NoFile} : handleFileSelect(p, file)
       \/ readerOnload(p)
       \/ BagCardinality(import_logs) < MaxRoundTripRuns /\ importStudents(p)
       \/ getUser(p)
       \/ requiredFields(p)
       \/ uniqueAndDate(p)
       \/ insertRow(p)
       \/ rowsDone(p)
       \/ insertLog(p)
  \/ schoolDashMount
  \/ schoolFetched
  \/ schoolExportToExcel

SpecRoundTrip == InitRoundTrip /\ [][NextRoundTrip]_vars

\* ------------------------------------------------------------------ claims
\* The row an importer's run is working on.
CurRow(p) == run[p].rows[run[p].i + 1]

\* Some student of the school holds this SRN.
SrnTaken(tbl, school, srn) ==
  \E r \in BagToSet(tbl) : r.school_id = school /\ r.srn_no = srn

\* Positions of the error list that name row k.
ErrorsOfRow(errs, k) == {j \in 1..Len(errs) : errs[j].row = k}

\* reader.onload handles the file importer p selected.
OnloadStep(p) == reader[p] # NoFile /\ reader'[p] = NoFile

\* C1: a selected file whose header row lacks a required column is rejected
\* whole (nothing of it is loaded, the missing columns are reported) and no
\* student is inserted for it: in a session that picks this one file the
\* store stays as it was and no run can start.
C1_DeficientHeaderRejected ==
  /\ [][\A p \in Importers :
          (OnloadStep(p) /\ reader[p].readable
             /\ reader[p].header # requiredColumns)
          => /\ importData'[p] = importData[p]
             /\ students' = students
             /\ \E t \in toasts'[p] :
                  t.msg \in {"Missing required columns", "Excel file is empty"}]_vars
  /\ [](\A p \in Importers :
          (\E t \in toasts[p] :
             t.msg \in {"Missing required columns", "Excel file is empty"})
          => importData[p] = <<>> /\ pc[p] = "idle" /\ students \in InitStores)

\* C1 witness: a file without the Section column has been rejected.
C1_Witness ==
  \E p \in Importers :
    /\ reader[p] = NoFile
    /\ toasts[p] = {Toast("Missing required columns", {"Section"})}
    /\ importData[p] = <<>>

\* C2: while a run works through its rows successful + failed is the number
\* of rows processed so far, and the outcome it shows has
\* successful + failed = total = the number of loaded rows.
C2_TallyAddsUp ==
  \A p \in Importers :
    /\ pc[p] \in {"row", "validateSRN", "insert", "log"}
       => /\ run[p].successfulRecords + run[p].failedRecords = run[p].i
          /\ run[p].totalRecords = Len(run[p].rows)
          /\ run[p].i <= run[p].totalRecords
    /\ pc[p] = "log" => run[p].i = run[p].totalRecords
    /\ results[p] # NoResults
       => /\ results[p].successful + results[p].failed = results[p].total
          /\ results[p].total = Len(importData[p])

\* C2 witness: a finished run of three rows, two imported and one failed.
C2_Witness ==
  \E p \in Importers :
    results[p].total = 3 /\ results[p].successful = 2 /\ results[p].failed = 1

\* C3: when the lookup for a row answers and the store holds a student of the
\* selected school with the row's SRN, the row gets the duplicate error, is
\* counted as failed, and no insert is sent for it.
C3_ExistingSrnRejected ==
  [][\A p \in Importers :
       (pc[p] = "validateSRN" /\ pc'[p] # "validateSRN"
          /\ SrnTaken(students, run[p].school, CurRow(p)["SRN No"].v))
       => /\ run'[p].errors =
               Append(run[p].errors, RowError(run[p].i, "SRN already exists"))
          /\ run'[p].failedRecords = run[p].failedRecords + 1
          /\ run'[p].successfulRecords = run[p].successfulRecords
          /\ pc'[p] = "row"
          /\ students' = students]_vars

\* C3 witness: the last row processed was refused as a duplicate of a student
\* the store holds.
C3_Witness ==
  \E p \in Importers :
    /\ pc[p] = "row" /\ run[p].i > 0 /\ run[p].errors # <<>>
    /\ run[p].errors[Len(run[p].errors)] = RowError(run[p].i - 1, "SRN already exists")
    /\ SrnTaken(students, run[p].school, run[p].rows[run[p].i]["SRN No"].v)
    /\ faults = 0

\* C4: the store never holds two students with the same (school_id, srn_no),
\* however import runs and form saves interleave.
C4_SrnUniquePerSchool ==
  /\ \A r \in BagToSet(students) : CopiesIn(r, students) = 1
  /\ \A r1, r2 \in BagToSet(students) :
       (r1.school_id = r2.school_id /\ r1.srn_no = r2.srn_no) => r1 = r2

\* C4 witness: two importers raced for SRN A in school s1 while the form
\* saved a student B there; one importer was refused by the store, and the
\* store holds each of the two SRNs once.
C4_Witness ==
  \E p, q \in Importers :
    /\ p # q
    /\ results[p].successful = 1
    /\ results[q].errors = <<[row |-> 1, msg |-> UniqueViolation]>>
    /\ \A srn \in {<<"A">>, <<"B">>} :
         Cardinality({r \in BagToSet(students) :
                        r.school_id = "s1" /\ r.srn_no = srn}) = 1

\* C5: when the store rejects a row's insert (the table is left as it was),
\* the run records one error for that row carrying the store's message, the
\* unique-key violation if the SRN has been taken since the lookup, and
\* counts the row as failed, not as successful.
C5_RejectedInsertRecorded ==
  [][\A p \in Importers :
       (pc[p] = "insert" /\ pc'[p] # "insert" /\ students' = students)
       => /\ run'[p].failedRecords = run[p].failedRecords + 1
          /\ run'[p].successfulRecords = run[p].successfulRecords
          /\ \E m \in {UniqueViolation, StoreError} :
               run'[p].errors =
                 Append(run[p].errors, [row |-> run[p].i + 1, msg |-> m])
          /\ (faults' = faults)
             => /\ SrnTaken(students, run[p].school, trim(CurRow(p)["SRN No"].v))
                /\ run'[p].errors[Len(run'[p].errors)].msg = UniqueViolation]_vars

\* C5 witness: importer q has just been refused by the store for SRN A,
\* which its lookup had found free and which importer p has inserted since.
C5_Witness ==
  \E p, q \in Importers :
    /\ p # q
    /\ pc[q] = "row" /\ run[q].i = 1 /\ run[q].rows[1] = RowA
    /\ run[q].errors = <<[row |-> 1, msg |-> UniqueViolation]>>
    /\ run[q].failedRecords = 1
    /\ run[p].school = run[q].school /\ run[p].rows = <<RowA>>
    /\ run[p].successfulRecords = 1

\* What a run has done so far, or did if it has finished: its rows, the
\* school, the errors, and how many rows have been processed.
InRun(p) == pc[p] \in {"row", "validateSRN", "insert", "log"}

Hist(p) ==
  IF InRun(p)
  THEN [rows |-> run[p].rows, school |-> run[p].school, errors |-> run[p].errors,
        done |-> run[p].i, ok |-> run[p].successfulRecords,
        failed |-> run[p].failedRecords, finished |-> FALSE]
  ELSE IF results[p] # NoResults
  THEN [rows |-> importData[p], school |-> selectedSchool[p],
        errors |-> results[p].errors, done |-> results[p].total,
        ok |-> results[p].successful, failed |-> results[p].failed,
        finished |-> TRUE]
  ELSE [rows |-> <<>>, school |-> "", errors |-> <<>>, done |-> 0, ok |-> 0,
        failed |-> 0, finished |-> FALSE]

\* A row that passes the importer's own field and date checks.
OtherwiseValid(row) ==
  ~missingRequired(row) /\ ~invalidDate(row["Date of Birth"].v)

\* The student a row is stored as.
StoredAs(school, row) ==
  insertPayload(school, row, isoDate(row["Date of Birth"].v))

\* C6 as claimed: in a finished run without store faults, into a school that
\* held no student with the SRN, of the otherwise valid rows carrying one
\* identical SRN the first is inserted and every later one is reported with
\* the importer's duplicate error.
C6_FirstOccurrenceWins ==
  \A p \in Importers :
    LET h == Hist(p) IN
    (h.finished /\ faults = 0)
    => \A j, k \in 1..Len(h.rows) :
         ( /\ j < k
           /\ h.rows[j]["SRN No"] = h.rows[k]["SRN No"]
           /\ OtherwiseValid(h.rows[j]) /\ OtherwiseValid(h.rows[k])
           /\ \A m \in 1..(j - 1) :
                ~(OtherwiseValid(h.rows[m])
                    /\ h.rows[m]["SRN No"] = h.rows[j]["SRN No"]) )
         => /\ ErrorsOfRow(h.errors, j) = {}
            /\ BagIn(StoredAs(h.school, h.rows[j]), students)
            /\ \E e \in ErrorsOfRow(h.errors, k) :
                 h.errors[e] = RowError(k - 1, "SRN already exists")

\* The three-row sheet of the spec's scenario: row 2 has no name.
ScenarioRows == <<RowA, RowNoName, RowBsp>>

\* C7: every processed row with an empty required field has exactly one
\* error, "Row k: Missing required fields", and is counted as failed; the run
\* still processes every row; the scenario sheet yields total 3, successful 2,
\* failed 1 and the single error of row 2.
C7_MissingFieldsReported ==
  \A p \in Importers :
    LET h == Hist(p)
        missing == {k \in 1..h.done : missingRequired(h.rows[k])}
    IN  /\ \A k \in missing :
             /\ Cardinality(ErrorsOfRow(h.errors, k)) = 1
             /\ \E e \in ErrorsOfRow(h.errors, k) :
                  h.errors[e] = [row |-> k, msg |-> "Missing required fields"]
        /\ h.failed >= Cardinality(missing)
        /\ h.finished => h.done = Len(h.rows)
        /\ (h.finished /\ h.rows = ScenarioRows /\ faults = 0)
           => results[p] =
                [total |-> 3, successful |-> 2, failed |-> 1,
                 errors |-> <<[row |-> 2, msg |-> "Missing required fields"]>>]

\* C7 witness: the scenario sheet has been imported.
C7_Witness ==
  \E p \in Importers :
    /\ results[p] # NoResults /\ importData[p] = ScenarioRows /\ faults = 0
    /\ results[p].errors = <<[row |-> 2, msg |-> "Missing required fields"]>>

\* C8 as claimed: a readable file with all five columns in its header row and
\* at least one data row is accepted: its rows are loaded.
C8_FullHeaderAccepted ==
  [][\A p \in Importers :
       (OnloadStep(p) /\ reader[p].readable
          /\ reader[p].header = requiredColumns
          /\ Len(sheet_to_json(reader[p])) > 0)
       => importData'[p] = sheet_to_json(reader[p])]_vars

\* C9: no row failure aborts the batch. The loop index moves by one row at a
\* time over unchanged rows and the run ends only after the last row; every
\* processed row has either exactly one error or none, the errors come in
\* file order, and every row without an error (it passed the checks and the
\* store accepted it) is in the store, whatever happened to the other rows.
C9_NoRowAbortsBatch ==
  /\ [][\A p \in Importers :
          /\ (InRun(p) /\ InRun(p)')
             => /\ run'[p].rows = run[p].rows
                /\ run'[p].i \in {run[p].i, run[p].i + 1}
          /\ (InRun(p) /\ ~InRun(p)')
             => /\ run[p].i = Len(run[p].rows)
                /\ results'[p].total = Len(run[p].rows)]_vars
  /\ [](\A p \in Importers :
          LET h == Hist(p) IN
          /\ \A k \in 1..h.done :
               /\ Cardinality(ErrorsOfRow(h.errors, k)) <= 1
               /\ ErrorsOfRow(h.errors, k) = {}
                  => /\ OtherwiseValid(h.rows[k])
                     /\ BagIn(StoredAs(h.school, h.rows[k]), students)
          /\ \A e \in 1..Len(h.errors) :
               /\ h.errors[e].row \in 1..h.done
               /\ e > 1 => h.errors[e - 1].row < h.errors[e].row
          /\ h.ok = Cardinality({k \in 1..h.done : ErrorsOfRow(h.errors, k) = {}})
          /\ h.finished => h.done = Len(h.rows))

\* C9 witness: a finished run whose first row failed and whose last row was
\* imported.
C9_Witness ==
  \E p \in Importers :
    LET h == Hist(p) IN
    /\ h.finished /\ Len(h.rows) >= 2
    /\ ErrorsOfRow(h.errors, 1) # {}
    /\ ErrorsOfRow(h.errors, Len(h.rows)) = {}
    /\ BagIn(StoredAs(h.school, h.rows[Len(h.rows)]), students)

\* C10: the checks run in the order required fields, duplicate, date, insert.
\* No lookup is pending for a row with a missing field and no insert is
\* pending for a row that fails a check; a row with a missing field gets only
\* the missing-fields error whatever else is wrong with it, and a row whose
\* SRN is taken gets only the duplicate error even if its date is invalid.
C10_CheckOrder ==
  /\ [](\A p \in Importers :
          /\ pc[p] = "validateSRN" => ~missingRequired(CurRow(p))
          /\ pc[p] = "insert"
             => /\ OtherwiseValid(CurRow(p))
                /\ ~SrnTaken(students, run[p].school, CurRow(p)["SRN No"].v)
          /\ \A k \in 1..Hist(p).done :
               Cardinality(ErrorsOfRow(Hist(p).errors, k)) <= 1)
  /\ [][\A p \in Importers :
          /\ (pc[p] = "row" /\ run'[p] # run[p] /\ run[p].i < Len(run[p].rows)
                /\ missingRequired(CurRow(p)))
             => /\ run'[p].errors =
                     Append(run[p].errors, RowError(run[p].i, "Missing required fields"))
                /\ pc'[p] = "row" /\ students' = students /\ faults' = faults
          /\ (pc[p] = "validateSRN" /\ pc'[p] # "validateSRN")
             => IF SrnTaken(students, run[p].school, CurRow(p)["SRN No"].v)
                     \/ faults' # faults
                THEN /\ pc'[p] = "row"
                     /\ run'[p].errors =
                          Append(run[p].errors, RowError(run[p].i, "SRN already exists"))
                ELSE IF invalidDate(CurRow(p)["Date of Birth"].v)
                THEN /\ pc'[p] = "row"
                     /\ run'[p].errors =
                          Append(run[p].errors,
                                 RowError(run[p].i, "Invalid date format for Date of Birth"))
                ELSE pc'[p] = "insert" /\ run'[p].errors = run[p].errors]_vars

\* C10 witness: after a valid row A, a row without a name (whose SRN is taken
\* and whose date is invalid) and a row with a taken SRN and an invalid date
\* were reported with their first reason only.
C10_Witness ==
  \E p \in Importers :
    /\ results[p] # NoResults /\ faults = 0
    /\ importData[p] = <<RowA, RowNoName, RowBadDate>>
    /\ results[p].errors =
         <<[row |-> 2, msg |-> "Missing required fields"],
           [row |-> 3, msg |-> "SRN already exists"]>>

\* The messages the store gives for a rejected insert.
StoreMessages == {UniqueViolation, StoreError}

\* C11: when the store rejects a row's insert, the run appends one error for
\* that row carrying the store's message (the store's fault message if the
\* call failed, else the unique-key violation), adds one to the failure count
\* and nothing to the success count, and goes on with the next row: the loop
\* index moves to the following row over unchanged rows, and a finished run
\* has processed every row after a rejected one.
C11_InsertRejectionRecorded ==
  /\ [][\A p \in Importers :
          (pc[p] = "insert" /\ pc'[p] # "insert" /\ students' = students)
          => /\ run'[p].errors =
                  Append(run[p].errors,
                         RowError(run[p].i,
                                  IF faults' # faults THEN StoreError
                                  ELSE UniqueViolation))
             /\ run'[p].failedRecords = run[p].failedRecords + 1
             /\ run'[p].successfulRecords = run[p].successfulRecords
             /\ pc'[p] = "row"
             /\ run'[p].i = run[p].i + 1
             /\ run'[p].rows = run[p].rows]_vars
  /\ [](\A p \in Importers :
          LET h == Hist(p) IN
          \A e \in 1..Len(h.errors) :
            h.errors[e].msg \in StoreMessages
            => /\ h.errors[e].row \in 1..h.done
               /\ h.failed >= 1
               /\ h.ok <= h.done - 1
               /\ h.finished => h.done = Len(h.rows))

\* C11 witness: a finished run whose first row the store rejected and whose
\* second row was imported after it.
C11_Witness ==
  \E p \in Importers :
    LET h == Hist(p) IN
    /\ h.finished /\ Len(h.rows) >= 2
    /\ h.errors = <<RowError(0, StoreError)>>
    /\ BagIn(StoredAs(h.school, h.rows[2]), students)

\* The log entries that carry the counts and the error list of an outcome.
LogsOfOutcome(res) ==
  {e \in BagToSet(import_logs) :
     /\ e.total_records = res.total
     /\ e.successful_records = res.successful
     /\ e.failed_records = res.failed
     /\ e.errors = res.errors}

\* C12 as claimed: a log entry is only written by a run that has processed
\* its last row and has not shown its outcome yet, and once the one run of
\* the session shows its outcome the log holds exactly one entry, whose
\* counts and error list are those of the outcome.
C12_OneLogEntryPerRun ==
  /\ [][import_logs' # import_logs
          => \E p \in Importers :
               /\ pc[p] = "log" /\ run[p].i = Len(run[p].rows)
               /\ results[p] = NoResults /\ results'[p] = outcome(run[p])
               /\ import_logs' = import_logs (+) SetToBag({logEntry(p)})]_vars
  /\ [](\A p \in Importers :
          results[p] # NoResults
          => /\ BagCardinality(import_logs) = 1
             /\ LogsOfOutcome(results[p]) # {})

\* The SRN of a row, as the cell holds it or as it is stored, is held by a
\* student of another school and by none of this school.
SrnOnlyElsewhere(tbl, school, row) ==
  LET forms == {row["SRN No"].v, trim(row["SRN No"].v)} IN
  /\ \A srn \in forms : ~SrnTaken(tbl, school, srn)
  /\ \E other \in Schools \ {school}, srn \in forms : SrnTaken(tbl, other, srn)

\* C16: uniqueness is per school. When the store answers the lookup for a row
\* whose SRN is held only under another school, the row is not reported as a
\* duplicate; if its date is valid the insert is sent, and when the store
\* answers that insert the row is stored under the selected school and
\* counted as imported, the other school's student staying as it was.
C16_SrnScopedToSchool ==
  [][\A p \in Importers :
       /\ (pc[p] = "validateSRN" /\ pc'[p] # "validateSRN" /\ faults' = faults
             /\ SrnOnlyElsewhere(students, run[p].school, CurRow(p)))
          => /\ run'[p].errors # Append(run[p].errors,
                                        RowError(run[p].i, "SRN already exists"))
             /\ OtherwiseValid(CurRow(p))
                => pc'[p] = "insert" /\ run'[p].errors = run[p].errors
       /\ (pc[p] = "insert" /\ pc'[p] # "insert" /\ faults' = faults
             /\ SrnOnlyElsewhere(students, run[p].school, CurRow(p)))
          => /\ students' =
                  students (+) SetToBag({StoredAs(run[p].school, CurRow(p))})
             /\ StoredAs(run[p].school, CurRow(p)).school_id = selectedSchool[p]
             /\ run'[p].successfulRecords = run[p].successfulRecords + 1
             /\ run'[p].errors = run[p].errors]_vars

\* C16 witness: a run into school s1 has imported SRN A and SRN B, which
\* school s2 held before and still holds.
C16_Witness ==
  \E p \in Importers :
    /\ Hist(p).finished /\ Hist(p).errors = <<>> /\ Hist(p).school = "s1"
    /\ \A srn \in {<<"A">>, <<"B">>} :
         SrnTaken(students, "s1", srn) /\ SrnTaken(students, "s2", srn)

\* The file of the session that a name stands for.
FileNamed(name) == CHOOSE f \in SessionFiles \cup {NoFile} : f.name = name

\* C13 as claimed: the entry a run writes to the log names the file its rows
\* were parsed from, whatever was selected, rejected or cleared before.
C13_LogNamesSourceFile ==
  [][\A p \in Importers :
       (pc[p] = "log" /\ import_logs' # import_logs)
       => \E f \in SessionFiles, e \in BagToSet(import_logs') :
            /\ import_logs' = import_logs (+) SetToBag({e})
            /\ f.readable /\ sheet_to_json(f) = run[p].rows
            /\ e.filename = f.name]_vars

\* C19 as claimed: every student the importer has stored (the students of
\* school s1) has a non-empty name, SRN, class and section.
C19_StoredFieldsNonEmpty ==
  \A r \in BagToSet(students) :
    r.school_id = "s1"
    => /\ r.student_name # <<>> /\ r.srn_no # <<>>
       /\ r.class # <<>> /\ r.section # <<>>

\* The file selected last has been read and rejected.
LastSelectionRejected(p) ==
  /\ reader[p] = NoFile
  /\ fileInput[p] # ""
  /\ ~onloadOutcome(FileNamed(fileInput[p])).load

\* C20 as claimed: while the file selected last is a rejected one, no student
\* row is inserted, whatever had been loaded before.
C20_RejectedSelectionLoadsNothing ==
  [][\A p \in {"i1"} : LastSelectionRejected(p) => students' = students]_vars

\* The signed-in user has just opened /dashboard and has this role.
OpenedDashboardAs(role) ==
  /\ layout.pc = "getUser" /\ location = "/dashboard"
  /\ \A u \in Users : user_profiles[u].role = role

\* C17 as claimed: a signed-in school user who opens /dashboard is eventually
\* shown the School Dashboard for the school of their profile, and an admin
\* is eventually shown the Admin Dashboard.
C17_RoleBasedDashboards ==
  /\ OpenedDashboardAs("school")
       ~> /\ DashboardView = "SchoolDashboard"
          /\ dashboard.userProfile = user_profiles[dashboard.user]
  /\ OpenedDashboardAs("admin") ~> DashboardView = "AdminDashboard"

\* C15 as claimed: the workbook written for an empty list of records has a
\* sheet with the header row of the fixed column labels and no data row.
C15_EmptyExportHasHeader ==
  [][(download' # download /\ download'.rows = <<>>)
       => download'.header \in {SchoolColumns, AdminColumns}]_vars

\* The school files SchoolDashboard.exportToExcel writes.
SchoolFileNames == {schoolFileName(s) : s \in Schools}

\* C18: every student the School Dashboard lists has the school_id of the
\* profile the dashboard was opened with, whatever the store holds for other
\* schools, and the workbook it exports holds exactly the listed students.
C18_SchoolSeesOwnStudents ==
  /\ [](\A k \in 1..Len(schoolDash.students) :
          /\ dashboard.userProfile.role = "school"
          /\ schoolDash.students[k].school_id = dashboard.userProfile.school_id)
  /\ [][(download' # download /\ download'.name \in SchoolFileNames)
          => /\ download'.name = schoolFileName(dashboard.userProfile.school_id)
             /\ download'.rows =
                  [k \in 1..Len(schoolDash.students) |->
                     exportData(schoolDash.students[k])]]_vars

\* C18 witness: the dashboard of a user of school s1 lists that school's two
\* students and has exported them while the store holds a student of s2.
C18_Witness ==
  /\ dashboard.userProfile = SchoolProfile("s1")
  /\ Len(schoolDash.students) = 2
  /\ download.name = "s1_students.xlsx" /\ Len(download.rows) = 2
  /\ \E r \in BagToSet(students) : r.school_id = "s2"

\* The rows an export of all students of a school consists of.
ExportRows(tbl, school) ==
  {exportData(r) : r \in {x \in BagToSet(tbl) : x.school_id = school}}

\* The run of importer p imports, into the school it was exported from, a
\* workbook that holds every student the school has now, each once, and has
\* so far reported nothing but duplicates.
ReimportsExport(p) ==
  /\ InRun(p) /\ download # NoFile
  /\ run[p].rows = sheet_to_json(download)
  /\ {run[p].rows[k] : k \in 1..Len(run[p].rows)} = ExportRows(students, run[p].school)
  /\ Len(run[p].rows) = Cardinality(ExportRows(students, run[p].school))
  /\ run[p].successfulRecords = 0
  /\ \A e \in 1..Len(run[p].errors) : run[p].errors[e].msg = "SRN already exists"

\* C14 as claimed: importing again what was exported from the school, the
\* store being as exported, changes no student, imports no row, and reports
\* every row as a duplicate.
C14_ReimportIsIdempotent ==
  [][\A p \in Importers :
       ReimportsExport(p)
       => /\ students' = students
          /\ InRun(p)'
             => /\ run'[p].successfulRecords = 0
                /\ \A e \in 1..Len(run'[p].errors) :
                     run'[p].errors[e].msg = "SRN already exists"
          /\ ~InRun(p)'
             => /\ results'[p].successful = 0
                /\ results'[p].failed = results'[p].total
                /\ Len(results'[p].errors) = results'[p].total]_vars

\* C21: no cancellation or overlap mid-run. While an importer's importing is
\* true no step replaces or clears its loaded rows (importData) and none
\* starts another run (the run's own rows stay as they are until it ends);
\* importing is true exactly while importStudents is under way, so it is
\* false again once the run has ended, on every path.
C21_NoOverlapMidRun ==
  /\ [][\A p \in Importers :
          importing[p] =>
            /\ importData'[p] = importData[p]
            /\ importing'[p] => run'[p].rows = run[p].rows]_vars
  /\ [](\A p \in Importers : importing[p] <=> pc[p] # "idle")

\* The rows named by a list of error messages come in strictly increasing order.
RowsIncrease(errs) ==
  \A j, k \in 1..Len(errs) : j < k => errs[j].row < errs[k].row

\* C22: each failed row appends exactly one message to the error list and each
\* successful row appends none, so at every point of a run the number of
\* messages equals the failure count, and the rows the messages name are
\* strictly increasing (file order); the outcome shown keeps both.
C22_OneMessagePerFailure ==
  /\ [](\A p \in Importers :
          /\ Len(run[p].errors) = run[p].failedRecords
          /\ RowsIncrease(run[p].errors)
          /\ results[p] # NoResults =>
               /\ Len(results[p].errors) = results[p].failed
               /\ RowsIncrease(results[p].errors))
  /\ [][\A p \in Importers :
          run'[p].i = run[p].i + 1 =>
            IF run'[p].failedRecords = run[p].failedRecords + 1
            THEN /\ Len(run'[p].errors) = Len(run[p].errors) + 1
                 /\ SubSeq(run'[p].errors, 1, Len(run[p].errors)) = run[p].errors
                 /\ run'[p].errors[Len(run'[p].errors)].row = run[p].i + 1
                 /\ run'[p].successfulRecords = run[p].successfulRecords
            ELSE /\ run'[p].errors = run[p].errors
                 /\ run'[p].failedRecords = run[p].failedRecords
                 /\ run'[p].successfulRecords = run[p].successfulRecords + 1]_vars

\* A run that has met two failed rows and a successful one.
C22_Witness ==
  \E p \in Importers :
    /\ InRun(p)
    /\ run[p].failedRecords = 2
    /\ run[p].successfulRecords = 1
    /\ Len(run[p].errors) = 2

\* C23: the add and edit dialogs never leak form state into each other. On
\* the States page and on the Blocks page, once an edit dialog is cancelled
\* or dismissed the shared formData is empty, and an Add dialog that opens
\* starts with empty fields.
C23_DialogsDoNotLeak ==
  [][/\ (statesPage.editingState # NoState /\ statesPage'.editingState = NoState)
          => statesPage'.formData = EmptyStateForm
     /\ (~statesPage.isAddDialogOpen /\ statesPage'.isAddDialogOpen)
          => statesPage'.formData = EmptyStateForm
     /\ (blocksPage.editingBlock # NoBlock /\ blocksPage'.editingBlock = NoBlock)
          => blocksPage'.formData = EmptyBlockForm
     /\ (~blocksPage.isAddDialogOpen /\ blocksPage'.isAddDialogOpen)
          => blocksPage'.formData = EmptyBlockForm]_vars

\* C24: when the uniqueness lookup itself fails with a store error, the
\* importer treats the row as a duplicate: it sends no insert, counts the row
\* as failed, records "Row k: SRN ... already exists" for it and goes on with
\* the next row.
C24_FailedLookupIsDuplicate ==
  [][\A p \in Importers :
       (pc[p] = "validateSRN" /\ faults' = faults + 1) =>
         /\ students' = students
         /\ pc'[p] = "row"
         /\ run'[p].i = run[p].i + 1
         /\ run'[p].rows = run[p].rows
         /\ run'[p].failedRecords = run[p].failedRecords + 1
         /\ run'[p].successfulRecords = run[p].successfulRecords
         /\ run'[p].errors =
              Append(run[p].errors, RowError(run[p].i, "SRN already exists"))]_vars

\* A run has reported row 1 as a duplicate although no student of the school
\* has its SRN, the lookup having failed, and has gone on to import row 2.
C24_Witness ==
  \E p \in Importers :
    /\ InRun(p)
    /\ faults = 1
    /\ run[p].i = 2
    /\ run[p].errors = <<RowError(0, "SRN already exists")>>
    /\ ~SrnTaken(students, run[p].school, run[p].rows[1]["SRN No"].v)
    /\ ~SrnTaken(students, run[p].school, trim(run[p].rows[1]["SRN No"].v))
    /\ run[p].successfulRecords = 1

\* C25: for every row, the SRN the uniqueness lookup asked about is the SRN
\* sent in the insert, so a row that has passed the lookup is never sent to
\* the store under an SRN a student of the school already has.
C25_LookupAndInsertSameSrn ==
  \A p \in Importers :
    pc[p] = "insert" =>
      LET payload == insertPayload(run[p].school, CurRow(p), run[p].dateOfBirth)
      IN  /\ payload.srn_no = CurRow(p)["SRN No"].v
          /\ ~SrnTaken(students, run[p].school, payload.srn_no)

\* C26: during an import run the progress value never decreases and never
\* exceeds 100, and when the run finishes it is 100, whatever mix of
\* successful and failed rows the file holds.
C26_ProgressReachesHundred ==
  /\ [](\A p \in Importers : progress[p] <= 100)
  /\ [][\A p \in Importers :
          /\ importing[p] => progress'[p] >= progress[p]
          /\ (importing[p] /\ ~importing'[p]) => progress'[p] = 100]_vars

\* C27: opening the edit form for a block pre-fills its place in the
\* hierarchy: handleEdit puts the block's district_id into the form, and once
\* the effect its state change triggers has run, the form's district_id is
\* still the edited block's district_id.
C27_EditPrefillsParent ==
  [][/\ (blocksPage.editingBlock = NoBlock /\ blocksPage'.editingBlock # NoBlock)
          => blocksPage'.formData.district_id = blocksPage'.editingBlock.district_id
     /\ (/\ blocksPage.editingBlock # NoBlock
         /\ blocksPage.formData.district_id = blocksPage.editingBlock.district_id
         /\ ~blocksSettled
         /\ blocksPage'.deps # blocksPage.deps)
          => blocksPage'.formData.district_id = blocksPage.editingBlock.district_id]_vars

\* The lists the Admin Dashboard may show for a school filter: the rows the
\* query returns, in any order, cut at the limit.
AdminListsFor(school) ==
  {limit(list, 100) :
     list \in Orderings(adminStudentsQuery(students,
                          user_profiles[dashboard.user], school))}

\* C28: in the Admin Dashboard, once every fetchStudents request in flight
\* has answered, the list shown is the result of the query for the latest
\* filters, whatever the order in which overlapping requests were answered.
C28_LatestQueryShown ==
  (adminDash.mounted /\ adminDash.pending = {}) =>
    adminDash.students \in AdminListsFor(adminDash.school)

\* Some child route of /dashboard has content on screen: the outlet shows the
\* page of the path, or Dashboard or one of its dashboards is mounted.
ChildRouteRendered ==
  \/ LayoutView = "Outlet"
  \/ dashboard.pc # "unmounted"
  \/ schoolDash.pc # "unmounted"
  \/ adminDash.mounted

\* C29: the pages under /dashboard are rendered only when the fetched profile
\* role is 'admin': while the role is loading, absent, not 'admin' or its
\* lookup failed, no child route content is rendered; and the layout holds
\* the role 'admin' only if the profile row it fetched said so.
C29_AdminPagesOnlyForAdmins ==
  /\ [](ChildRouteRendered => (~layout.loading /\ layout.userRole = "admin"))
  /\ [][(layout.userRole # "admin" /\ layout'.userRole = "admin") =>
          /\ layout.pc = "profile"
          /\ faults' = faults
          /\ user_profiles[layout.user].role = "admin"]_vars

\* An admin has an admin page on screen.
C29_Witness ==
  /\ LayoutView = "Outlet"
  /\ location = "/dashboard/students"
  /\ layout.userRole = "admin"

\* C30: creating a user is all-or-nothing. Once the create-mode submits of
\* the user form and of the school form have finished, an auth account for an
\* email exists if and only if a user_profiles row for it exists.
C30_AccountIffProfile ==
  (userMgmt.pc = "idle" /\ schoolsPage.pc = "idle") =>
    \A e \in NewEmails : e \in auth_users <=> HasProfile(user_profiles, e)

====
